---- MODULE Spec2Model ----
(***************************************************************************)
(* Model of the MTG Chaos RPG core: the game state store (GameState), the  *)
(* AI content layer (AIService) and the template generator                 *)
(* (PerchanceGenerator).                                                   *)
(*                                                                         *)
(* A JavaScript null / undefined reference is modelled as the empty        *)
(* sequence <<>> and a set reference as a one-element sequence <<v>>.      *)
(***************************************************************************)
EXTENDS Integers, Sequences, FiniteSets, TLC

VARIABLES
    state,          \* GameState.state
    gameData,       \* GameState.gameData (the boss catalog)
    observers,      \* GameState.observers: array of callbacks
    saved,          \* the blob last returned by saveGame, held by the caller
    lastOp,         \* the Store operation called last and how it returned
    events,         \* change events emitted by the last operation, in order
    calls,          \* callback invocations made by the last operation, in order
    personality,    \* AIService.personality
    majorEvents,    \* AIService.storyContext.majorEvents
    aiOut,          \* value returned by the last AIService call
    generated,      \* encounter objects generated so far (their identity)
    generators,     \* PerchanceGenerator.generators: name -> items
    history,        \* PerchanceGenerator.history
    genOut,         \* outcome of the last PerchanceGenerator.generate call
    built,          \* object returned by the last composite builder call
    now,            \* Date.now(), in milliseconds
    lastRequestTime,\* ScryfallAPI.lastRequestTime
    cache,          \* ScryfallAPI.cache: endpoint -> response data
    requests,       \* the makeRequest calls: where each one stands
    fetches         \* the fetches issued so far: time and endpoint, in order

storeVars == <<state, gameData, observers, saved, lastOp, events, calls>>
aiVars    == <<personality, majorEvents, aiOut, generated>>
genVars   == <<generators, history, genOut, built>>
apiVars   == <<now, lastRequestTime, cache, requests, fetches>>
vars      == <<state, gameData, observers, saved, lastOp, events, calls,
               personality, majorEvents, aiOut, generated,
               generators, history, genOut, built,
               now, lastRequestTime, cache, requests, fetches>>

-----------------------------------------------------------------------------
(* Bounds of the explored environment *)

MaxDefeated  == 3      \* longest defeatedBosses list explored
MaxHealth    == 250    \* highest boss health explored (negative damage heals)
MaxObservers == 2      \* longest observers array explored
MaxZone      == 2      \* longest hand / battlefield / graveyard explored
MaxList      == 1      \* cards, items and quests added outside the card specification

-----------------------------------------------------------------------------
(* Generic helpers *)

Null == <<>>

Some(v) == <<v>>

Range(s) == {s[i] : i \in 1..Len(s)}

RECURSIVE Count(_, _)
Count(x, s) == IF s = <<>> THEN 0
               ELSE (IF Head(s) = x THEN 1 ELSE 0) + Count(x, Tail(s))

\* { ...base, ...updates } : object spread, later keys win
Spread(base, updates) ==
    [k \in (DOMAIN base) \cup (DOMAIN updates) |->
        IF k \in DOMAIN updates THEN updates[k] ELSE base[k]]

-----------------------------------------------------------------------------
(* GameState: construction *)

Boss(id, hp) == [id |-> id, health |-> hp, maxHealth |-> hp, defeated |-> FALSE]

initializeGameData ==
    [bosses |-> << Boss("vorthak-destroyer", 150),
                   Boss("malachar-corrupted", 120),
                   Boss("nethys-ancient", 200) >>]

defaultPlayer ==
    [id |-> "", name |-> "Player", hand |-> <<>>, battlefield |-> <<>>,
     graveyard |-> <<>>, library |-> <<>>]

defaultSettings == [soundVolume |-> 50, difficulty |-> "normal"]

constructor ==
    [gamePhase |-> "menu", currentTurn |-> 0, players |-> <<>>,
     currentBoss |-> Null, currentEncounter |-> Null, location |-> Null,
     inventory |-> <<>>, quests |-> <<>>, defeatedBosses |-> <<>>,
     gameSettings |-> defaultSettings]

CatalogIds == {initializeGameData.bosses[i].id : i \in 1..Len(initializeGameData.bosses)}

-----------------------------------------------------------------------------
(* GameState: observers *)

Callbacks == {"f", "g", "bad"}

\* callbacks whose body throws whenever it is invoked
Throwing == {"bad"}

\* first index of obs whose callback throws, 0 if none
RECURSIVE FirstThrow(_, _)
FirstThrow(obs, i) ==
    IF i > Len(obs) THEN 0
    ELSE IF obs[i] \in Throwing THEN i ELSE FirstThrow(obs, i + 1)

\* forEach without the try/catch: the first exception ends the loop and
\* propagates to the caller
notifyObserversNoCatch(obs, type) ==
    LET t == FirstThrow(obs, 1)
        n == IF t = 0 THEN Len(obs) ELSE t
    IN  [calls |-> [i \in 1..n |-> <<obs[i], type>>], threw |-> t # 0]

\* notifyObservers(change): every callback is invoked in array order inside
\* try/catch; nothing propagates
notifyObservers(obs, type) ==
    [calls |-> [i \in 1..Len(obs) |-> <<obs[i], type>>], threw |-> FALSE]

Event(type) == [type |-> type, victory |-> FALSE, boss |-> Null]

\* only the typed events are delivered, the generic state_update is not
RECURSIVE DeliverTypedOnly(_, _)
DeliverTypedOnly(obs, evs) ==
    IF evs = <<>> THEN [calls |-> <<>>, events |-> <<>>, threw |-> FALSE]
    ELSE LET r == DeliverTypedOnly(obs, Tail(evs))
         IN  IF Head(evs).type = "state_update" THEN r
             ELSE [calls  |-> notifyObservers(obs, Head(evs).type).calls \o r.calls,
                   events |-> <<Head(evs)>> \o r.events,
                   threw  |-> r.threw]

\* The notifications of one operation, in program order.  An exception that
\* leaves notifyObservers unwinds the operation: later notifications are
\* not made and the operation throws.
RECURSIVE Deliver(_, _)
Deliver(obs, evs) ==
    IF evs = <<>> THEN [calls |-> <<>>, events |-> <<>>, threw |-> FALSE]
    ELSE LET n == notifyObservers(obs, Head(evs).type)
         IN  IF n.threw
             THEN [calls |-> n.calls, events |-> <<Head(evs)>>, threw |-> TRUE]
             ELSE LET r == Deliver(obs, Tail(evs))
                  IN  [calls  |-> n.calls \o r.calls,
                       events |-> <<Head(evs)>> \o r.events,
                       threw  |-> r.threw]

\* bookkeeping of one completed call: what was emitted, who was called,
\* how the call returned
Returned(op, evs) ==
    LET d == Deliver(observers, evs)
    IN  /\ events' = d.events
        /\ calls'  = d.calls
        /\ lastOp' = [op |-> op, result |-> IF d.threw THEN "observer_error" ELSE "ok"]
        /\ UNCHANGED <<aiVars, genVars, apiVars>>

\* the observers are told of the failure before the exception is thrown
ThrewNotified(op, error) ==
    LET d == Deliver(observers, <<Event("error")>>)
    IN  /\ events' = d.events
        /\ calls'  = d.calls
        /\ lastOp' = [op |-> op, result |-> error]
        /\ UNCHANGED <<aiVars, genVars, apiVars>>

Threw(op, error) ==
    /\ events' = <<>>
    /\ calls'  = <<>>
    /\ lastOp' = [op |-> op, result |-> error]
    /\ UNCHANGED <<aiVars, genVars, apiVars>>

subscribe(callback) ==
    /\ observers' = Append(observers, callback)
    /\ events' = <<>>
    /\ calls' = <<>>
    /\ lastOp' = [op |-> "subscribe", result |-> "ok"]
    /\ UNCHANGED <<state, gameData, saved, aiVars, genVars, apiVars>>

unsubscribe(callback) ==
    /\ observers' = SelectSeq(observers, LAMBDA obs : obs # callback)
    /\ events' = <<>>
    /\ calls' = <<>>
    /\ lastOp' = [op |-> "unsubscribe", result |-> "ok"]
    /\ UNCHANGED <<state, gameData, saved, aiVars, genVars, apiVars>>

\* updateState(updates): merge into a fresh state object; it emits state_update
updateState(updates) == Spread(state, updates)

-----------------------------------------------------------------------------
(* GameState: game flow *)

PlayerId(i) == CASE i = 1 -> "player-1" [] i = 2 -> "player-2" [] OTHER -> "player-3"

DefaultName(i) == CASE i = 1 -> "Player 1" [] i = 2 -> "Player 2" [] OTHER -> "Player 3"

\* options.playerNames?.[i] || `Player ${i + 1}`
NameOf(options, i) ==
    IF i <= Len(options.playerNames) /\ options.playerNames[i] # ""
    THEN options.playerNames[i] ELSE DefaultName(i)

\* options.playerCount ? Array.from({length: playerCount}, ...) : [one default player]
NewPlayers(options) ==
    IF options.playerCount # 0
    THEN [i \in 1..options.playerCount |->
            Spread(defaultPlayer, [id |-> PlayerId(i), name |-> NameOf(options, i)])]
    ELSE << Spread(defaultPlayer, [id |-> "player-1", name |-> "Player 1"]) >>

\* the blob shares the currentBoss object with the live state until the
\* live state gets another currentBoss reference
Unalias(blob) ==
    IF blob = Null THEN Null ELSE Some([blob[1] EXCEPT !.aliased = FALSE])

\* { ...undefined }: the object without any field
EmptyObject == [k \in {} |-> Null]

\* this.gameData.bosses is an array (not undefined)
HasBosses(data) == "bosses" \in DOMAIN data

startNewGame(options) ==
    /\ state' = updateState([gamePhase |-> "playing", currentTurn |-> 1,
                             players |-> NewPlayers(options),
                             currentBoss |-> Null, currentEncounter |-> Null,
                             location |-> Some("Starting Village"),
                             inventory |-> <<>>, quests |-> <<>>,
                             defeatedBosses |-> <<>>])
    /\ saved' = Unalias(saved)
    /\ Returned("startNewGame", <<Event("state_update"), Event("game_started")>>)
    /\ UNCHANGED <<gameData, observers>>

\* saveData.state is a shallow copy: it holds the same currentBoss object
\* the blob stops sharing the bosses array once the store holds another one
Detach(blob) ==
    IF blob # Null /\ blob[1].catalog = Null
    THEN Some([blob[1] EXCEPT !.catalog = Some(gameData)])
    ELSE blob

\* a serializer that leaves the location out
saveGameWithoutLocation ==
    /\ saved' = Some([state |-> [state EXCEPT !.location = Null],
                      aliased |-> state.currentBoss # Null, catalog |-> Null])
    /\ Returned("saveGame", <<Event("game_saved")>>)
    /\ UNCHANGED <<state, gameData, observers>>

\* the blob holds shallow copies: its state.currentBoss is the live object
\* (aliased) and its gameData.bosses is the live array (catalog = Null)
saveGame ==
    /\ saved' = Some([state |-> state, aliased |-> state.currentBoss # Null,
                      catalog |-> Null])
    /\ Returned("saveGame", <<Event("game_saved")>>)
    /\ UNCHANGED <<state, gameData, observers>>

\* saveData: state and gameData are absent (Null) or present; shared tells
\* that saveData is the object saveGame returned in this session, whose
\* state.currentBoss and gameData.bosses are the live objects themselves
loadGame(saveData) ==
    IF saveData.state = Null
    THEN /\ Threw("loadGame", "Invalid save data")
         /\ UNCHANGED <<state, gameData, observers, saved>>
    ELSE /\ state' = saveData.state[1]
         /\ gameData' = IF saveData.gameData = Null THEN EmptyObject
                        ELSE saveData.gameData[1]
         /\ saved' = IF saveData.shared
                     THEN Some([saved[1] EXCEPT !.aliased = (saveData.state[1].currentBoss # Null),
                                                !.catalog = Null])
                     ELSE Detach(Unalias(saved))
         /\ Returned("loadGame", <<Event("game_loaded")>>)
         /\ UNCHANGED observers

\* this.gameData.bosses.find(b => b.id === id)
RECURSIVE FindIndex(_, _, _)
FindIndex(bosses, id, i) ==
    IF i > Len(bosses) THEN 0
    ELSE IF bosses[i].id = id THEN i ELSE FindIndex(bosses, id, i + 1)

\* boss is a string id (isString) or an object / null reference (obj)
startBossEncounter(boss) ==
    LET idx      == FindIndex(gameData.bosses, boss.id, 1)
        bossData == IF boss.isString
                    THEN (IF idx = 0 THEN Null ELSE Some(gameData.bosses[idx]))
                    ELSE boss.obj
    IN  IF boss.isString /\ ~HasBosses(gameData)
        THEN /\ Threw("startBossEncounter", "TypeError")
             /\ UNCHANGED <<state, gameData, observers, saved>>
        ELSE IF bossData = Null
        THEN /\ Threw("startBossEncounter", "Boss not found")
             /\ UNCHANGED <<state, gameData, observers, saved>>
        ELSE /\ state' = updateState([gamePhase |-> "boss",
                                      currentBoss |-> bossData,
                                      currentEncounter |-> Null])
             /\ saved' = Unalias(saved)
             /\ Returned("startBossEncounter",
                         <<Event("state_update"),
                           [Event("boss_encounter_started") EXCEPT !.boss = bossData]>>)
             /\ UNCHANGED <<gameData, observers>>

\* the encounter starts while the boss of the battle stays current
startEncounterKeepsBoss(encounter) ==
    /\ state' = updateState([gamePhase |-> "encounter",
                             currentEncounter |-> Some(encounter)])
    /\ saved' = Unalias(saved)
    /\ Returned("startEncounter", <<Event("state_update"), Event("encounter_started")>>)
    /\ UNCHANGED <<gameData, observers>>

startEncounter(encounter) ==
    /\ state' = updateState([gamePhase |-> "encounter",
                             currentEncounter |-> Some(encounter),
                             currentBoss |-> Null])
    /\ saved' = Unalias(saved)
    /\ Returned("startEncounter", <<Event("state_update"), Event("encounter_started")>>)
    /\ UNCHANGED <<gameData, observers>>

\* boss.health = ... writes through the reference the blob may share
MutateSharedBoss(blob, boss) ==
    IF blob # Null /\ blob[1].aliased
    THEN Some([blob[1] EXCEPT !.state.currentBoss = Some(boss)])
    ELSE blob

Max(a, b) == IF a >= b THEN a ELSE b

Min(a, b) == IF a <= b THEN a ELSE b

\* the subtraction without the clamp
DamagedHealthUnclamped(health, damage) == health - damage

\* Math.max(0, boss.health - damage)
DamagedHealth(health, damage) == Max(0, health - damage)

\* every(boss => boss.defeated)
AllDefeated(bosses) == \A i \in 1..Len(bosses) : bosses[i].defeated

\* the two outcomes exchanged
PhaseAfterDefeatSwapped(allBossesDefeated) ==
    IF allBossesDefeated THEN "playing" ELSE "victory"

\* allBossesDefeated ? 'victory' : 'playing'
PhaseAfterDefeat(allBossesDefeated) ==
    IF allBossesDefeated THEN "victory" ELSE "playing"

\* a fight that does not end the game ends in the phase 'defeat'
DefeatTransitionToDefeat(op, defeatedBoss) ==
    LET newDefeatedBosses == Append(state.defeatedBosses, defeatedBoss.id)
        bossIndex   == FindIndex(gameData.bosses, defeatedBoss.id, 1)
        bosses      == IF bossIndex # 0
                       THEN [gameData.bosses EXCEPT ![bossIndex].defeated = TRUE]
                       ELSE gameData.bosses
        allBossesDefeated == AllDefeated(bosses)
    IN  /\ gameData' = [gameData EXCEPT !.bosses = bosses]
        /\ state' = updateState([gamePhase |-> IF allBossesDefeated THEN "victory" ELSE "defeat",
                                 currentBoss |-> Null,
                                 defeatedBosses |-> newDefeatedBosses])
        /\ Returned(op, <<Event("state_update"),
                          [type |-> "boss_defeated", victory |-> allBossesDefeated,
                           boss |-> Some(defeatedBoss)]>>)

\* the body of defeatBoss for the current boss object `defeatedBoss`
DefeatTransition(op, defeatedBoss) ==
    LET newDefeatedBosses == Append(state.defeatedBosses, defeatedBoss.id)
        bossIndex   == FindIndex(gameData.bosses, defeatedBoss.id, 1)
        bosses      == IF bossIndex # 0
                       THEN [gameData.bosses EXCEPT ![bossIndex].defeated = TRUE]
                       ELSE gameData.bosses
        allBossesDefeated == AllDefeated(bosses)
    IN  /\ gameData' = [gameData EXCEPT !.bosses = bosses]
        /\ state' = updateState([gamePhase |-> PhaseAfterDefeat(allBossesDefeated),
                                 currentBoss |-> Null,
                                 defeatedBosses |-> newDefeatedBosses])
        /\ Returned(op, <<Event("state_update"),
                          [type |-> "boss_defeated", victory |-> allBossesDefeated,
                           boss |-> Some(defeatedBoss)]>>)

defeatBoss ==
    IF state.currentBoss = Null
    THEN /\ Threw("defeatBoss", "No active boss to defeat")
         /\ UNCHANGED <<state, gameData, observers, saved>>
    ELSE IF ~HasBosses(gameData)
    THEN /\ Threw("defeatBoss", "TypeError")
         /\ UNCHANGED <<state, gameData, observers, saved>>
    ELSE /\ DefeatTransition("defeatBoss", state.currentBoss[1])
         /\ saved' = Unalias(saved)
         /\ UNCHANGED observers

\* currentBoss is the catalog entry itself: the damage is written to it
damageBossWritesCatalog(damage) ==
    IF state.currentBoss = Null
    THEN /\ Threw("damageBoss", "No active boss to damage")
         /\ UNCHANGED <<state, gameData, observers, saved>>
    ELSE LET boss == [state.currentBoss[1] EXCEPT
                        !.health = DamagedHealth(state.currentBoss[1].health, damage)]
             bossIndex == FindIndex(gameData.bosses, boss.id, 1)
         IN  IF boss.health <= 0
             THEN /\ DefeatTransition("damageBoss", boss)
                  /\ saved' = Unalias(MutateSharedBoss(saved, boss))
                  /\ UNCHANGED observers
             ELSE /\ state' = updateState([currentBoss |-> Some(boss)])
                  /\ gameData' = IF bossIndex = 0 THEN gameData
                                 ELSE [gameData EXCEPT !.bosses[bossIndex].health = boss.health]
                  /\ saved' = MutateSharedBoss(saved, boss)
                  /\ Returned("damageBoss",
                              <<Event("state_update"),
                                [Event("boss_damaged") EXCEPT !.boss = Some(boss)]>>)
                  /\ UNCHANGED observers

damageBoss(damage) ==
    IF state.currentBoss = Null
    THEN /\ Threw("damageBoss", "No active boss to damage")
         /\ UNCHANGED <<state, gameData, observers, saved>>
    ELSE LET boss == [state.currentBoss[1] EXCEPT
                        !.health = DamagedHealth(state.currentBoss[1].health, damage)]
         IN  IF boss.health <= 0 /\ ~HasBosses(gameData)
             THEN /\ state' = [state EXCEPT !.currentBoss = Some(boss)]
                  /\ saved' = MutateSharedBoss(saved, boss)
                  /\ Threw("damageBoss", "TypeError")
                  /\ UNCHANGED <<gameData, observers>>
             ELSE IF boss.health <= 0
             THEN /\ DefeatTransition("damageBoss", boss)
                  /\ saved' = Unalias(MutateSharedBoss(saved, boss))
                  /\ UNCHANGED observers
             ELSE /\ state' = updateState([currentBoss |-> Some(boss)])
                  /\ saved' = MutateSharedBoss(saved, boss)
                  /\ Returned("damageBoss",
                              <<Event("state_update"),
                                [Event("boss_damaged") EXCEPT !.boss = Some(boss)]>>)
                  /\ UNCHANGED <<gameData, observers>>

-----------------------------------------------------------------------------
(* GameState: players, cards, inventory, quests, location, settings *)

\* a card for a player that does not exist goes to the first player
addCardToHandFirstPlayer(playerId, card) ==
    LET known == \E i \in 1..Len(state.players) : state.players[i].id = playerId
        withCard(i) ==
            IF state.players[i].id = playerId \/ (~known /\ i = 1)
            THEN Spread(state.players[i], [hand |-> Append(state.players[i].hand, card)])
            ELSE state.players[i]
    IN  /\ state' = updateState([players |-> [i \in 1..Len(state.players) |-> withCard(i)]])
        /\ Returned("addCardToHand", <<Event("state_update"), Event("card_added_to_hand")>>)
        /\ UNCHANGED <<gameData, observers, saved>>

addCardToHand(playerId, card) ==
    LET withCard(player) ==
            IF player.id = playerId
            THEN Spread(player, [hand |-> Append(player.hand, card)])
            ELSE player
    IN  /\ state' = updateState([players |-> [i \in 1..Len(state.players) |-> withCard(state.players[i])]])
        /\ Returned("addCardToHand", <<Event("state_update"), Event("card_added_to_hand")>>)
        /\ UNCHANGED <<gameData, observers, saved>>

\* { ...player, hand, [zone]: targetZone }
playCard(playerId, card, zone) ==
    LET played(player) ==
            IF player.id = playerId
            THEN LET hand       == SelectSeq(player.hand, LAMBDA c : c.id # card.id)
                     targetZone == Append(player[zone], card)
                 IN  Spread(Spread(player, [hand |-> hand]),
                            [k \in {zone} |-> targetZone])
            ELSE player
    IN  /\ state' = updateState([players |-> [i \in 1..Len(state.players) |-> played(state.players[i])]])
        /\ Returned("playCard", <<Event("state_update"), Event("card_played")>>)
        /\ UNCHANGED <<gameData, observers, saved>>

\* the generated `item-<time>-<random>` id is modelled as a number that is
\* fresh in the list; the same holds for quest ids
addToInventory(item) ==
    LET inventory == Append(state.inventory,
                            Spread(item, [id |-> Len(state.inventory) + 1]))
    IN  /\ state' = updateState([inventory |-> inventory])
        /\ Returned("addToInventory", <<Event("state_update"), Event("item_added_to_inventory")>>)
        /\ UNCHANGED <<gameData, observers, saved>>

addQuest(quest) ==
    LET quests == Append(state.quests,
                         Spread(quest, [id |-> Len(state.quests) + 1,
                                        status |-> "active", progress |-> 0]))
    IN  /\ state' = updateState([quests |-> quests])
        /\ Returned("addQuest", <<Event("state_update"), Event("quest_added")>>)
        /\ UNCHANGED <<gameData, observers, saved>>

\* completion only above 100
updateQuestProgressAbove(questId, progress) ==
    LET updated(quest) ==
            IF quest.id = questId
            THEN LET completed == progress > 100
                 IN  Spread(quest, [progress |-> progress,
                                    status |-> IF completed THEN "completed" ELSE "active"])
            ELSE quest
        quests == [i \in 1..Len(state.quests) |-> updated(state.quests[i])]
    IN  /\ state' = updateState([quests |-> quests])
        /\ Returned("updateQuestProgress",
                    <<Event("state_update"), Event("quest_progress_updated")>>)
        /\ UNCHANGED <<gameData, observers, saved>>

updateQuestProgress(questId, progress) ==
    LET updated(quest) ==
            IF quest.id = questId
            THEN LET completed == progress >= 100
                 IN  Spread(quest, [progress |-> progress,
                                    status |-> IF completed THEN "completed" ELSE "active"])
            ELSE quest
        quests == [i \in 1..Len(state.quests) |-> updated(state.quests[i])]
    IN  /\ state' = updateState([quests |-> quests])
        /\ Returned("updateQuestProgress",
                    <<Event("state_update"), Event("quest_progress_updated")>>)
        /\ UNCHANGED <<gameData, observers, saved>>

changeLocation(location) ==
    /\ state' = updateState([location |-> Some(location)])
    /\ Returned("changeLocation", <<Event("state_update"), Event("location_changed")>>)
    /\ UNCHANGED <<gameData, observers, saved>>

updateSettings(settings) ==
    LET gameSettings == Spread(state.gameSettings, settings)
    IN  /\ state' = updateState([gameSettings |-> gameSettings])
        /\ Returned("updateSettings", <<Event("state_update"), Event("settings_updated")>>)
        /\ UNCHANGED <<gameData, observers, saved>>

\* the settings of a fresh store instead of the current ones
resetGameDefaultSettings ==
    /\ state' = constructor
    /\ gameData' = [gameData EXCEPT !.bosses =
                        [i \in 1..Len(gameData.bosses) |->
                            [gameData.bosses[i] EXCEPT !.defeated = FALSE,
                                                       !.health = gameData.bosses[i].maxHealth]]]
    /\ saved' = Unalias(saved)
    /\ Returned("resetGame", <<Event("game_reset")>>)
    /\ UNCHANGED observers

\* the state is replaced first; the forEach over the bosses comes after it
resetGame ==
    /\ state' = [gamePhase |-> "menu", currentTurn |-> 0, players |-> <<>>,
                 currentBoss |-> Null, currentEncounter |-> Null, location |-> Null,
                 inventory |-> <<>>, quests |-> <<>>, defeatedBosses |-> <<>>,
                 gameSettings |-> state.gameSettings]
    /\ IF HasBosses(gameData)
       THEN /\ gameData' = [gameData EXCEPT !.bosses =
                               [i \in 1..Len(gameData.bosses) |->
                                   [gameData.bosses[i] EXCEPT !.defeated = FALSE,
                                                              !.health = gameData.bosses[i].maxHealth]]]
            /\ Returned("resetGame", <<Event("game_reset")>>)
       ELSE /\ gameData' = gameData
            /\ Threw("resetGame", "TypeError")
    /\ saved' = Unalias(saved)
    /\ UNCHANGED observers

\* getBosses(): this.gameData.bosses, which may be undefined
getBosses == IF HasBosses(gameData) THEN Some(gameData.bosses) ELSE Null

\* getUndefeatedBosses(): this.gameData.bosses.filter(boss => !boss.defeated)
getUndefeatedBosses ==
    IF HasBosses(gameData)
    THEN [error |-> "none",
          value |-> SelectSeq(gameData.bosses, LAMBDA boss : ~boss.defeated)]
    ELSE [error |-> "TypeError", value |-> <<>>]

-----------------------------------------------------------------------------
(* PerchanceGenerator *)

(* A template string is a sequence of tokens: a piece of literal text, or a *)
(* placeholder [name] as the scan regex \[([^\]]+)\] matches it.  Literal   *)
(* text holds no bracket and no '$'.                                        *)

Lit(text) == [ph |-> FALSE, text |-> text]

Ph(name) == [ph |-> TRUE, text |-> name]

StackLimit == 4        \* nested generate calls the call stack holds

\* const maxIterations = 10
maxIterations == 10

\* outcome of a call: a returned string, or the RangeError of an exhausted stack
Returns(text) == [ok |-> TRUE, text |-> text]

StackOverflow == [ok |-> FALSE, text |-> <<>>]

\* this.generators.has(name)
Has(table, name) == name \in DOMAIN table

\* generatorRegex.exec(result) from lastIndex: position of the next
\* placeholder, 0 for null
RECURSIVE Exec(_, _)
Exec(result, lastIndex) ==
    IF lastIndex > Len(result) THEN 0
    ELSE IF result[lastIndex].ph THEN lastIndex ELSE Exec(result, lastIndex + 1)

RECURSIVE IndexOf(_, _, _)
IndexOf(result, token, i) ==
    IF i > Len(result) THEN 0
    ELSE IF result[i] = token THEN i ELSE IndexOf(result, token, i + 1)

\* result.replace(match[0], replacement): the first occurrence is replaced
Replace(result, token, replacement) ==
    LET i == IndexOf(result, token, 1)
    IN  IF i = 0 THEN result
        ELSE SubSeq(result, 1, i - 1) \o replacement \o SubSeq(result, i + 1, Len(result))

\* selectRandomItem(items): the strings a call may return
\* without the emptiness test: items[0] of an empty array is undefined
selectRandomItemUnguarded(items) ==
    IF items = <<>> THEN { <<Lit("undefined")>> } ELSE Range(items)

selectRandomItem(items) ==
    IF items = <<>> THEN { <<Lit("Empty generator")>> } ELSE Range(items)

\* generate(name, {recordHistory: false}) and processNestedGenerators(text) as
\* the sets of their possible outcomes; depth counts the generate calls on
\* the stack
RECURSIVE generateNested(_, _, _), processNestedGenerators(_, _, _, _, _)
generateNestedUnprocessed(table, generatorName, depth) ==
    IF depth > StackLimit THEN {StackOverflow}
    ELSE { Returns(item) : item \in selectRandomItem(table[generatorName]) }

generateNested(table, generatorName, depth) ==
    IF depth > StackLimit THEN {StackOverflow}
    ELSE UNION { processNestedGenerators(table, item, 1, 0, depth) :
                    item \in selectRandomItem(table[generatorName]) }

processNestedGenerators(table, result, lastIndex, iterations, depth) ==
    LET match == Exec(result, lastIndex) IN
    IF match = 0 \/ iterations >= maxIterations THEN {Returns(result)}
    ELSE LET generatorName == result[match].text IN
         IF Has(table, generatorName)
         THEN UNION { IF replacement.ok
                      THEN processNestedGenerators(table,
                               Replace(result, result[match], replacement.text),
                               1, iterations + 1, depth)
                      ELSE {StackOverflow} :
                      replacement \in generateNested(table, generatorName, depth + 1) }
         ELSE processNestedGenerators(table, result, match + 1, iterations + 1, depth)

\* the default table, reduced to the pools the composite builders use and
\* to one or two items of each pool
initializeDefaultGenerators ==
    [n \in {"manaColor", "treasure", "randomEncounter", "encounterLocation",
            "weatherEffect", "rewardType", "magicalEffect", "cardQuality",
            "questObjective", "bossEncounter", "bossName", "bossTitle",
            "customCardName", "cardAdjective", "cardNoun", "dungeonHazard"} |->
        CASE n = "manaColor" -> << <<Lit("white")>>, <<Lit("blue")>> >>
          [] n = "bossEncounter" ->
                << <<Lit("The corrupted "), Ph("bossTitle"), Lit(" "), Ph("bossName"),
                     Lit(" challenges your party with "), Ph("bossChallenge"), Lit("!")>> >>
          [] n = "bossName" -> << <<Lit("Vorthak")>> >>
          [] n = "bossTitle" -> << <<Lit("the Destroyer")>> >>
          [] n = "customCardName" ->
                << <<Ph("cardAdjective"), Lit(" "), Ph("cardNoun")>> >>
          [] n = "cardAdjective" -> << <<Lit("Mystic")>> >>
          [] n = "cardNoun" -> << <<Lit("Blade")>> >>
          [] n = "dungeonHazard" -> << <<Lit("mana traps")>> >>
          [] n = "treasure" ->
                << <<Lit("Ancient "), Ph("artifactType")>>,
                   <<Ph("gemType"), Lit(" infused with "), Ph("manaColor"), Lit(" mana")>> >>
          [] n = "randomEncounter" ->
                << <<Lit("You discover "), Ph("encounterLocation"), Lit(" where "),
                     Ph("encounterEvent"), Lit(" awaits!")>> >>
          [] n = "encounterLocation" -> << <<Lit("floating ruins")>> >>
          [] n = "weatherEffect" -> << <<Lit("mana rain")>> >>
          [] n = "rewardType" -> << <<Lit("rare artifact")>> >>
          [] n = "magicalEffect" -> << <<Lit("time slows")>> >>
          [] n = "cardQuality" -> << <<Lit("Power")>> >>
          [] n = "questObjective" ->
                << <<Lit("Retrieve the "), Ph("questItem"), Lit(" from "),
                     Ph("questLocation")>> >>]

NoOutput == [name |-> "", status |-> "none", text |-> <<>>]

\* this.generators.set(name, {..., items: generator.items || []})
Set(table, name, items) ==
    [n \in DOMAIN table \cup {name} |-> IF n = name THEN items ELSE table[n]]

addGenerator(name, items) ==
    /\ generators' = Set(generators, name, items)
    /\ UNCHANGED <<history, genOut, built, storeVars, apiVars, aiVars>>

\* importGenerators(table): addGenerator for every entry of the table
importGenerators(table) ==
    /\ generators' = [n \in DOMAIN generators \cup DOMAIN table |->
                         IF n \in DOMAIN table THEN table[n] ELSE generators[n]]
    /\ UNCHANGED <<history, genOut, built, storeVars, apiVars, aiVars>>

\* a name without an entry is served like an entry without items
generateOrEmpty(generatorName) ==
    \E out \in IF Has(generators, generatorName)
                THEN generateNested(generators, generatorName, 1)
                ELSE { Returns(text) : text \in selectRandomItem(<<>>) } :
        /\ genOut' = [name |-> generatorName,
                      status |-> IF out.ok THEN "ok" ELSE "RangeError",
                      text |-> out.text]
        /\ history' = IF out.ok
                      THEN Append(history, [generator |-> generatorName, result |-> out.text])
                      ELSE history
        /\ UNCHANGED <<generators, built, storeVars, apiVars, aiVars>>

\* a top-level generate(generatorName) call
generate(generatorName) ==
    IF ~Has(generators, generatorName)
    THEN /\ genOut' = [name |-> generatorName, status |-> "not_found", text |-> <<>>]
         /\ UNCHANGED <<generators, built, history, storeVars, apiVars, aiVars>>
    ELSE \E out \in generateNested(generators, generatorName, 1) :
            /\ genOut' = [name |-> generatorName,
                          status |-> IF out.ok THEN "ok" ELSE "RangeError",
                          text |-> out.text]
            /\ history' = IF out.ok
                          THEN Append(history, [generator |-> generatorName, result |-> out.text])
                          ELSE history
            /\ UNCHANGED <<generators, built, storeVars, apiVars, aiVars>>

clearHistory ==
    /\ history' = <<>>
    /\ UNCHANGED <<generators, built, genOut, storeVars, apiVars, aiVars>>

\* top-level generate calls made one after the other: the history records
\* they push, and the error that ended them ("none" if all returned)
RECURSIVE GenerateEach(_, _)
GenerateEach(table, names) ==
    IF names = <<>> THEN { [records |-> <<>>, error |-> "none"] }
    ELSE IF ~Has(table, Head(names)) THEN { [records |-> <<>>, error |-> "not_found"] }
    ELSE UNION { IF out.ok
                 THEN { [records |-> <<[generator |-> Head(names), result |-> out.text]>>
                                         \o rest.records,
                         error |-> rest.error] : rest \in GenerateEach(table, Tail(names)) }
                 ELSE { [records |-> <<>>, error |-> "RangeError"] } :
                 out \in generateNested(table, Head(names), 1) }

\* generateCompleteEncounter(): special tells Math.random() < 0.3
generateCompleteEncounter(table, special) ==
    GenerateEach(table, <<"randomEncounter", "encounterLocation", "weatherEffect",
                          "treasure", "rewardType">>
                            \o (IF special THEN <<"magicalEffect">> ELSE <<>>))

\* generateQuest()
generateQuest(table) ==
    GenerateEach(table, <<"cardQuality", "questObjective", "randomEncounter",
                          "treasure", "rewardType">>)

\* generateBossEncounter()
generateBossEncounter(table) ==
    GenerateEach(table, <<"bossName", "bossTitle", "bossEncounter", "magicalEffect",
                          "dungeonHazard", "manaColor", "treasure", "rewardType",
                          "customCardName">>)

\* Math.round in place of Math.floor
RandomIntRounded(n) == 0..n

\* Math.floor(Math.random() * n): Math.random() is in [0, 1)
RandomInt(n) == 0..(n - 1)

\* the object a composite builder returns, reduced to its numeric fields
Built(builder, error, difficulty, health, timeLimit) ==
    Some([builder |-> builder, error |-> error, difficulty |-> difficulty,
          health |-> health, timeLimit |-> timeLimit])

\* a call of generateCompleteEncounter on the singleton
BuiltCompleteEncounter ==
    \E special \in BOOLEAN, r \in RandomInt(5) :
        \E base \in generateCompleteEncounter(generators, special) :
            /\ history' = history \o base.records
            /\ built' = IF base.error = "none"
                        THEN Built("generateCompleteEncounter", "none", Some(r + 1), Null, Null)
                        ELSE Built("generateCompleteEncounter", base.error, Null, Null, Null)
            /\ UNCHANGED <<generators, genOut, storeVars, apiVars, aiVars>>

\* a call of generateQuest on the singleton; timed tells Math.random() < 0.4
BuiltQuest ==
    \E timed \in BOOLEAN, r \in RandomInt(5), t \in RandomInt(10) :
        \E base \in generateQuest(generators) :
            /\ history' = history \o base.records
            /\ built' = IF base.error = "none"
                        THEN Built("generateQuest", "none", Some(r + 1), Null,
                                   IF timed THEN Some(t + 5) ELSE Null)
                        ELSE Built("generateQuest", base.error, Null, Null, Null)
            /\ UNCHANGED <<generators, genOut, storeVars, apiVars, aiVars>>

\* a call of generateBossEncounter on the singleton
BuiltBossEncounter ==
    \E r \in RandomInt(50) :
        \E base \in generateBossEncounter(generators) :
            /\ history' = history \o base.records
            /\ built' = IF base.error = "none"
                        THEN Built("generateBossEncounter", "none", Null, Some(r + 100), Null)
                        ELSE Built("generateBossEncounter", base.error, Null, Null, Null)
            /\ UNCHANGED <<generators, genOut, storeVars, apiVars, aiVars>>

-----------------------------------------------------------------------------
(* AIService *)

\* this.personalities; the weights are in tenths
personalities ==
    [k \in {"default", "cautious", "experimental", "reckless"} |->
        CASE k = "default" -> [creativity |-> Some(7), danger |-> Some(5), humor |-> Some(3)]
          [] k = "cautious" -> [creativity |-> Some(5), danger |-> Some(3), humor |-> Some(2)]
          [] k = "experimental" -> [creativity |-> Some(9), danger |-> Some(6), humor |-> Some(5)]
          [] k = "reckless" -> [creativity |-> Some(8), danger |-> Some(9), humor |-> Some(4)]]

\* property names every object literal inherits from Object.prototype
InheritedKeys == {"constructor", "toString"}

\* this.personalities[key]: a catalog entry, an inherited member (an object
\* without the three weights), or undefined
Lookup(key) ==
    IF key \in DOMAIN personalities THEN Some(personalities[key])
    ELSE IF key \in InheritedKeys
         THEN Some([creativity |-> Null, danger |-> Null, humor |-> Null])
         ELSE Null

setPersonality(key) ==
    /\ personality' = IF Lookup(key) # Null THEN key ELSE "default"
    /\ UNCHANGED <<majorEvents, aiOut, generated, storeVars, apiVars, genVars>>

getPersonality == Lookup(personality)[1]

\* the adjusted difficulty is returned as it is, without Math.max / Math.min
scaleDifficultyUnclamped(baseDifficulty, config) ==
    IF config.danger # Null /\ config.danger[1] > 7 THEN baseDifficulty + 1
    ELSE IF config.danger # Null /\ config.danger[1] < 4 THEN baseDifficulty - 1
    ELSE baseDifficulty

\* scaleDifficulty(baseDifficulty, personality); a comparison with an
\* undefined weight is false
scaleDifficulty(baseDifficulty, config) ==
    LET scaled == IF config.danger # Null /\ config.danger[1] > 7 THEN baseDifficulty + 1
                  ELSE IF config.danger # Null /\ config.danger[1] < 4 THEN baseDifficulty - 1
                  ELSE baseDifficulty
    IN  Max(1, Min(5, scaled))

\* a weight compared with a threshold in tenths; false for an undefined weight
Above(weight, tenths) == weight # Null /\ weight[1] > tenths

\* the newest event is dropped when the list is full
PushedDropNewest(event) ==
    LET pushed == Append(majorEvents, [event |-> event, personality |-> personality])
    IN  IF Len(pushed) > 50 THEN SubSeq(pushed, 1, 50) ELSE pushed

\* majorEvents after the push and the shift of recordStoryEvent
Pushed(event) ==
    LET pushed == Append(majorEvents, [event |-> event, personality |-> personality])
    IN  IF Len(pushed) > 50 THEN Tail(pushed) ELSE pushed

\* recordStoryEvent(event): the list keeps its last 50 entries
recordStoryEvent(event) ==
    /\ majorEvents' = Pushed(event)
    /\ UNCHANGED <<personality, aiOut, generated, storeVars, apiVars, genVars>>

\* generateAIEncounter(): the encounter is built from a complete encounter of
\* the generator and recorded; the log entry refers to the encounter object.
\* Of the encounter's fields the personality and the difficulty are kept.
generateAIEncounter ==
    \E special \in BOOLEAN, baseDifficulty \in 1..5 :
        \E base \in generateCompleteEncounter(generators, special) :
            /\ history' = history \o base.records
            /\ IF base.error = "none"
               THEN /\ generated' = generated + 1
                    /\ aiOut' = Some([encounter |-> generated + 1,
                                      personality |-> personality,
                                      difficulty |-> scaleDifficulty(baseDifficulty,
                                                                     getPersonality)])
                    /\ majorEvents' = Pushed(generated + 1)
               ELSE /\ aiOut' = Some([error |-> base.error])
                    /\ UNCHANGED <<majorEvents, generated>>
            /\ UNCHANGED <<personality, generators, built, genOut, storeVars, apiVars>>

\* the NPC catalog of generateQuestGiver; trustworthy in hundredths
questGivers ==
    << [name |-> "Elder Sage Meridian", type |-> "wizard", trustworthy |-> 90],
       [name |-> "Captain Ironheart", type |-> "warrior", trustworthy |-> 80],
       [name |-> "Mysterious Stranger", type |-> "rogue", trustworthy |-> 40],
       [name |-> "Village Elder", type |-> "civilian", trustworthy |-> 95],
       [name |-> "Shadowy Figure", type |-> "unknown", trustworthy |-> 30] >>

\* array[index] for an index from 0: undefined past the end
At(array, index) == IF index + 1 \in 1..Len(array) THEN Some(array[index + 1]) ELSE Null

\* the threshold of the filter raised to 0.8
generateQuestGiverStrict(config) ==
    IF Above(config.danger, 7)
    THEN { At(questGivers, index) : index \in 0..(Len(questGivers) - 1) }
    ELSE LET trusted == SelectSeq(questGivers, LAMBDA qg : qg.trustworthy > 80)
         IN  { At(trusted, index) : index \in 0..2 }

\* generateQuestGiver(personality): the givers the random draw can return;
\* Math.floor(Math.random() * n) is any index in 0..n-1
generateQuestGiver(config) ==
    IF Above(config.danger, 7)
    THEN { At(questGivers, index) : index \in 0..(Len(questGivers) - 1) }
    ELSE LET trusted == SelectSeq(questGivers, LAMBDA qg : qg.trustworthy > 70)
         IN  { At(trusted, index) : index \in 0..2 }

\* generateAIQuest(): built from a quest of the generator, not recorded
generateAIQuest ==
    \E base \in generateQuest(generators), questGiver \in generateQuestGiver(getPersonality) :
        /\ history' = history \o base.records
        /\ aiOut' = IF base.error = "none"
                    THEN Some([aiEnhanced |-> TRUE,
                               moralChoice |-> Above(getPersonality.creativity, 6),
                               questGiver |-> questGiver])
                    ELSE Some([error |-> base.error])
        /\ UNCHANGED <<personality, majorEvents, generated, generators, built, genOut, storeVars, apiVars>>

\* generateBossBehavior(boss, gameState): tactics and adaptive strategy
generateBossBehavior(gameState) ==
    /\ aiOut' = Some([overwhelmingForce |-> Above(getPersonality.danger, 7),
                      realityManipulation |-> Above(getPersonality.creativity, 6),
                      counterCreatures |-> gameState.creatureCount > 3,
                      focusWeakest |-> Above(getPersonality.danger, 6),
                      unpredictable |-> Above(getPersonality.creativity, 7)])
    /\ UNCHANGED <<personality, majorEvents, generated, storeVars, apiVars, genVars>>

\* generatePlayerSuggestion(gameState): the actions suggested, in order
generatePlayerSuggestion(gameState) ==
    /\ aiOut' = Some([suggestions |->
                  (IF gameState.bossHealth # 0 /\ gameState.bossHealth < 30
                   THEN <<"aggressive">> ELSE <<>>)
                  \o (IF gameState.playerHealth < 10
                      THEN (IF Above(getPersonality.danger, 7)
                            THEN <<"risky">> ELSE <<"defensive">>)
                      ELSE <<>>)
                  \o (IF gameState.handSize > 7 THEN <<"card_management">> ELSE <<>>)])
    /\ UNCHANGED <<personality, majorEvents, generated, storeVars, apiVars, genVars>>

\* reset(): the story context is emptied, the personality stays
reset ==
    /\ majorEvents' = <<>>
    /\ UNCHANGED <<personality, aiOut, generated, storeVars, apiVars, genVars>>

-----------------------------------------------------------------------------
(* ScryfallAPI: rate limiting and the response cache.  Each makeRequest    *)
(* call is an asynchronous function: it runs to its next await, and other  *)
(* calls and the clock move in between.                                    *)

MaxCalls == 3          \* makeRequest calls of one session
TimeStep == 50         \* milliseconds the clock advances at a time
MaxTicks == 2          \* clock advances explored
StartTime == 1000      \* Date.now() when the first request is made

\* this.rateLimitDelay = 100
rateLimitDelay == 100

Calls == 1..MaxCalls

\* the body of a response; a search and the set list are the same at every
\* fetch, a random card is not told apart either
Data(endpoint) == [object |-> "list", of |-> endpoint]

NotCalled ==
    [pc |-> "idle", endpoint |-> "", useCache |-> FALSE, wake |-> 0,
     fetched |-> FALSE, result |-> Null]

\* the end of rateLimit and the fetch that follows it in the same task
IssueFetch(c, endpoint, useCache) ==
    /\ lastRequestTime' = now
    /\ fetches' = Append(fetches, [time |-> now, endpoint |-> endpoint])
    /\ requests' = [requests EXCEPT ![c] =
                       [pc |-> "fetching", endpoint |-> endpoint, useCache |-> useCache,
                        wake |-> 0, fetched |-> TRUE, result |-> Null]]

\* makeRequest(endpoint, useCache) up to its first await that waits: the
\* cache test, then rateLimit, which either sleeps or goes on to the fetch
makeRequest(c, endpoint, useCache) ==
    /\ requests[c].pc = "idle"
    /\ IF useCache /\ endpoint \in DOMAIN cache
       THEN /\ requests' = [requests EXCEPT ![c] =
                               [pc |-> "returned", endpoint |-> endpoint,
                                useCache |-> useCache, wake |-> 0, fetched |-> FALSE,
                                result |-> Some(cache[endpoint])]]
            /\ UNCHANGED <<lastRequestTime, fetches>>
       ELSE LET timeSinceLastRequest == now - lastRequestTime
            IN  IF timeSinceLastRequest < rateLimitDelay
                THEN /\ requests' = [requests EXCEPT ![c] =
                                        [pc |-> "sleeping", endpoint |-> endpoint,
                                         useCache |-> useCache,
                                         wake |-> now + (rateLimitDelay - timeSinceLastRequest),
                                         fetched |-> FALSE, result |-> Null]]
                     /\ UNCHANGED <<lastRequestTime, fetches>>
                ELSE IssueFetch(c, endpoint, useCache)
    /\ UNCHANGED <<now, cache, storeVars, aiVars, genVars>>

\* getRandomCard(): makeRequest('/cards/random', false)
getRandomCard(c) == makeRequest(c, "/cards/random", FALSE)

\* the timer of sleep has fired: rateLimit stores the time and returns, and
\* makeRequest issues the fetch
rateLimitResumes(c) ==
    /\ requests[c].pc = "sleeping"
    /\ now >= requests[c].wake
    /\ IssueFetch(c, requests[c].endpoint, requests[c].useCache)
    /\ UNCHANGED <<now, cache, storeVars, aiVars, genVars>>

FetchOutcomes == {"ok", "http_error", "network_error"}

\* every response that is ok is cached, whatever useCache says
fetchSettlesCachesAll(c, outcome) ==
    /\ requests[c].pc = "fetching"
    /\ IF outcome = "ok"
       THEN /\ requests' = [requests EXCEPT ![c].pc = "returned",
                                            ![c].result = Some(Data(requests[c].endpoint))]
            /\ cache' = [e \in DOMAIN cache \cup {requests[c].endpoint} |->
                            IF e = requests[c].endpoint
                            THEN Data(requests[c].endpoint) ELSE cache[e]]
       ELSE /\ requests' = [requests EXCEPT ![c].pc = "threw"]
            /\ UNCHANGED cache
    /\ UNCHANGED <<now, lastRequestTime, fetches, storeVars, aiVars, genVars>>

\* the fetch of call c settles: a response that is ok is parsed, cached if
\* useCache, and returned; anything else is logged and thrown again
fetchSettles(c, outcome) ==
    /\ requests[c].pc = "fetching"
    /\ IF outcome = "ok"
       THEN /\ requests' = [requests EXCEPT ![c].pc = "returned",
                                            ![c].result = Some(Data(requests[c].endpoint))]
            /\ cache' = IF requests[c].useCache
                        THEN [e \in DOMAIN cache \cup {requests[c].endpoint} |->
                                 IF e = requests[c].endpoint
                                 THEN Data(requests[c].endpoint) ELSE cache[e]]
                        ELSE cache
       ELSE /\ requests' = [requests EXCEPT ![c].pc = "threw"]
            /\ UNCHANGED cache
    /\ UNCHANGED <<now, lastRequestTime, fetches, storeVars, aiVars, genVars>>

\* clearCache(): this.cache.clear()
clearCache ==
    /\ cache' = <<>>
    /\ UNCHANGED <<now, lastRequestTime, requests, fetches, storeVars, aiVars, genVars>>

\* time passes
clockAdvances ==
    /\ now' = now + TimeStep
    /\ UNCHANGED <<lastRequestTime, cache, requests, fetches, storeVars, aiVars, genVars>>

-----------------------------------------------------------------------------
(* Initial state: the singletons right after construction *)

StoreInit ==
    /\ state = constructor
    /\ gameData = initializeGameData
    /\ observers = <<>>
    /\ saved = Null
    /\ lastOp = [op |-> "constructor", result |-> "ok"]
    /\ events = <<>>
    /\ calls = <<>>

AIInit ==
    /\ personality = "default"
    /\ majorEvents = <<>>
    /\ aiOut = Null
    /\ generated = 0

GenInit ==
    /\ generators = initializeDefaultGenerators
    /\ history = <<>>
    /\ genOut = NoOutput
    /\ built = Null

ApiInit ==
    /\ now = StartTime
    /\ lastRequestTime = 0
    /\ cache = <<>>
    /\ requests = [c \in Calls |-> NotCalled]
    /\ fetches = <<>>

Init == StoreInit /\ AIInit /\ GenInit /\ ApiInit

-----------------------------------------------------------------------------
(* Inputs of the explored environment *)

HeroOptions == [playerCount |-> 1, playerNames |-> <<"Hero">>]

ById(id) == [isString |-> TRUE, id |-> id, obj |-> Null]

ByObject(obj) == [isString |-> FALSE, id |-> "", obj |-> obj]

\* a boss object that is not in the catalog, as a caller may pass it
CustomBoss == [id |-> "custom-boss", health |-> 100, maxHealth |-> 100, defeated |-> FALSE]

BossInputs ==
    {ById(id) : id \in CatalogIds \cup {"unknown-boss"}}
        \cup {ByObject(Some(CustomBoss)), ByObject(Null)}

DamageInputs == {-50, 0, 50, 200}

\* the environment stops defeating bosses / healing them at the bounds
MayDefeat(max) == Len(state.defeatedBosses) < max

MayDamage(d, max) ==
    state.currentBoss # Null =>
        /\ state.currentBoss[1].health - d <= MaxHealth
        /\ state.currentBoss[1].health - d <= 0 => MayDefeat(max)

\* the blob saveGame returned earlier in this session
OwnBlob ==
    [state |-> Some(saved[1].state),
     gameData |-> IF saved[1].catalog = Null THEN Some(gameData) ELSE saved[1].catalog,
     shared |-> TRUE]

\* an object without a state field
BlobWithoutState == [state |-> Null, gameData |-> Null, shared |-> FALSE]

\* a save of an earlier session, read back from storage
StoredBlob ==
    [state |-> Some(Spread(constructor,
                 [gamePhase |-> "boss", currentTurn |-> 1,
                  players |-> NewPlayers(HeroOptions),
                  currentBoss |-> Some([Boss("malachar-corrupted", 120) EXCEPT !.health = 70]),
                  location |-> Some("Starting Village"),
                  defeatedBosses |-> <<"vorthak-destroyer">>])),
     gameData |-> Some([bosses |-> [initializeGameData.bosses EXCEPT ![1].defeated = TRUE]]),
     shared |-> FALSE]

-----------------------------------------------------------------------------
(* Game flow: encounters and boss battles *)

NewGame == startNewGame(HeroOptions)

EncounterBoss == \E b \in BossInputs : startBossEncounter(b)

Encounter == startEncounter("ambush")

Damage == \E d \in DamageInputs : MayDamage(d, MaxDefeated) /\ damageBoss(d)

Defeat == (state.currentBoss # Null => MayDefeat(MaxDefeated)) /\ defeatBoss

Reset == resetGame

Next ==
    \/ NewGame
    \/ EncounterBoss
    \/ Encounter
    \/ Damage
    \/ Defeat
    \/ Reset

Spec == Init /\ [][Next]_vars

-----------------------------------------------------------------------------
(* Every mutating operation of the Store, and loading a stored save *)

PhaseMaxDefeated == 1  \* longest defeatedBosses list explored here

CardInputs == { [id |-> "c1", name |-> "Lightning Bolt"],
                [id |-> "c1", name |-> "Grizzly Bears"],
                [id |-> "c2", name |-> "Healing Salve"] }

Bolt == [id |-> "c1", name |-> "Lightning Bolt"]

Zones == {"battlefield", "graveyard"}

\* the environment stops adding cards to a player's zones at MaxZone
ZoneRoom(playerId, zone, max) ==
    \A i \in 1..Len(state.players) :
        state.players[i].id = playerId => Len(state.players[i][zone]) < max

\* what the environment has put into the first player's zones, the inventory
\* and the quest list; it stops adding at MaxList
Load ==
    Len(state.inventory) + Len(state.quests)
        + (IF state.players = <<>> THEN 0
           ELSE Len(state.players[1].hand) + Len(state.players[1].battlefield)
                    + Len(state.players[1].graveyard))

InHand(playerId, card) ==
    \E i \in 1..Len(state.players) :
        state.players[i].id = playerId /\ card \in Range(state.players[i].hand)

QuestInputs == { [title |-> "Find the relic"],
                 [title |-> "Slay the wurm", status |-> "completed", progress |-> 150] }

PhaseNewGame == startNewGame(HeroOptions)

PhaseEncounterBoss ==
    \E id \in CatalogIds \cup {"unknown-boss"} : startBossEncounter(ById(id))

PhaseEncounter == startEncounter("ambush")

PhaseDamage == MayDamage(200, PhaseMaxDefeated) /\ damageBoss(200)

PhaseDefeat == (state.currentBoss # Null => MayDefeat(PhaseMaxDefeated)) /\ defeatBoss

PhaseReset == resetGame

PhaseAddCard == Load < MaxList /\ addCardToHand("player-1", Bolt)

PhasePlayCard ==
    (InHand("player-1", Bolt) \/ Load < MaxList) /\ playCard("player-1", Bolt, "battlefield")

PhaseAddItem == Load < MaxList /\ addToInventory([name |-> "Ancient relic"])

PhaseAddQuest == Load < MaxList /\ addQuest([title |-> "Find the relic"])

PhaseQuestProgress == updateQuestProgress(1, 100)

PhaseChangeLocation == changeLocation("The Shadowlands")

PhaseUpdateSettings == updateSettings([soundVolume |-> 80])

PhaseLoad == \E blob \in {StoredBlob, BlobWithoutState} : loadGame(blob)

PhaseNext ==
    \/ PhaseNewGame
    \/ PhaseEncounterBoss
    \/ PhaseEncounter
    \/ PhaseDamage
    \/ PhaseDefeat
    \/ PhaseReset
    \/ PhaseAddCard
    \/ PhasePlayCard
    \/ PhaseAddItem
    \/ PhaseAddQuest
    \/ PhaseQuestProgress
    \/ PhaseChangeLocation
    \/ PhaseUpdateSettings
    \/ PhaseLoad

PhaseSpec == Init /\ [][PhaseNext]_vars

-----------------------------------------------------------------------------
(* Observers: every mutating operation under a changing observers array *)

ObsSubscribe ==
    \E callback \in Callbacks : Len(observers) < MaxObservers /\ subscribe(callback)

ObsUnsubscribe == \E callback \in Callbacks : unsubscribe(callback)

ObsNewGame == startNewGame(HeroOptions)

ObsEncounterBoss ==
    \E id \in {"malachar-corrupted", "unknown-boss"} : startBossEncounter(ById(id))

ObsEncounter == startEncounter("ambush")

\* the observed session ends its boss fights with the first defeat
ObsDamage == state.defeatedBosses = <<>> /\ damageBoss(60)

ObsDefeat == state.defeatedBosses = <<>> /\ defeatBoss

ObsReset == resetGame

ObsAddCard == Load < MaxList /\ addCardToHand("player-1", Bolt)

ObsPlayCard ==
    (InHand("player-1", Bolt) \/ Load < MaxList) /\ playCard("player-1", Bolt, "battlefield")

ObsAddItem == Load < MaxList /\ addToInventory([name |-> "Ancient relic"])

ObsAddQuest == Load < MaxList /\ addQuest([title |-> "Find the relic"])

ObsQuestProgress == updateQuestProgress(1, 100)

ObsChangeLocation == changeLocation("The Shadowlands")

ObsUpdateSettings == updateSettings([soundVolume |-> 80])

ObsNext ==
    \/ ObsSubscribe
    \/ ObsUnsubscribe
    \/ ObsNewGame
    \/ ObsEncounterBoss
    \/ ObsEncounter
    \/ ObsDamage
    \/ ObsDefeat
    \/ ObsReset
    \/ ObsAddCard
    \/ ObsPlayCard
    \/ ObsAddItem
    \/ ObsAddQuest
    \/ ObsQuestProgress
    \/ ObsChangeLocation
    \/ ObsUpdateSettings

ObsSpec == Init /\ [][ObsNext]_vars

-----------------------------------------------------------------------------
(* Cards: a party of one or two players, cards added to and played from hand *)

PartyOptions ==
    { [playerCount |-> 1, playerNames |-> <<"Hero">>],
      [playerCount |-> 2, playerNames |-> <<"Amy", "Bo">>] }

\* player-2 never acts; "nobody" matches no player
ActingPlayers == {"player-1", "nobody"}

CardNewGame == \E options \in PartyOptions : startNewGame(options)

CardAdd ==
    \E playerId \in ActingPlayers, card \in CardInputs :
        ZoneRoom(playerId, "hand", MaxZone) /\ addCardToHand(playerId, card)

CardPlay ==
    \E playerId \in ActingPlayers, card \in CardInputs, zone \in Zones :
        ZoneRoom(playerId, zone, MaxZone) /\ playCard(playerId, card, zone)

CardNext ==
    \/ CardNewGame
    \/ CardAdd
    \/ CardPlay

CardSpec == Init /\ [][CardNext]_vars

-----------------------------------------------------------------------------
(* Stranger specification: the first player draws and plays one card while  *)
(* calls naming a player the party does not have arrive with any card.      *)

StrangerNewGame == \E options \in PartyOptions : startNewGame(options)

StrangerOwnAdd == ZoneRoom("player-1", "hand", MaxZone) /\ addCardToHand("player-1", Bolt)

StrangerOwnPlay ==
    \E zone \in Zones : ZoneRoom("player-1", zone, MaxZone) /\ playCard("player-1", Bolt, zone)

StrangerAdd == \E card \in CardInputs : addCardToHand("nobody", card)

StrangerPlay == \E card \in CardInputs, zone \in Zones : playCard("nobody", card, zone)

StrangerNext ==
    \/ StrangerNewGame
    \/ StrangerOwnAdd
    \/ StrangerOwnPlay
    \/ StrangerAdd
    \/ StrangerPlay

StrangerSpec == Init /\ [][StrangerNext]_vars

-----------------------------------------------------------------------------
(* Generator specification: tables of custom generators are imported into  *)
(* the fresh default table, generators are added, and any name is          *)
(* generated.                                                              *)

MaxUnreg == 3          \* unregistered placeholders at the head of an item
MaxReg == 11           \* registered placeholders in an item
MaxHistory == 1        \* history records kept before it is cleared

Rep(token, n) == [i \in 1..n |-> token]

\* top: one item of k unregistered placeholders followed by n registered ones
Flat(k, n) ==
    [g \in {"a", "top"} |->
        IF g = "a" THEN << <<Lit("x")>> >>
        ELSE << Rep(Ph("u"), k) \o Rep(Ph("a"), n) >>]

Nested ==
    [g \in {"a", "b", "top"} |->
        CASE g = "a" -> << <<Lit("x")>> >>
          [] g = "b" -> << <<Ph("a"), Lit(" "), Ph("manaColor")>>, <<Lit("plain")>> >>
          [] g = "top" -> << <<Ph("b"), Lit(" and "), Ph("a")>> >>]

\* the replacement text brings an unregistered placeholder with it
UnregNested ==
    [g \in {"a", "top"} |->
        IF g = "a" THEN << <<Ph("u"), Lit(" x")>> >> ELSE << Rep(Ph("a"), 6) >>]

EmptyNested ==
    [g \in {"a", "top"} |->
        IF g = "a" THEN <<>> ELSE << <<Ph("a"), Lit(" y")>> >>]

Plain ==
    [g \in {"top"} |-> << <<Lit("item1")>>, <<Lit("item2")>>, <<Lit("item3")>> >>]

SelfOnly == [g \in {"self"} |-> << <<Ph("self")>> >>]

SelfLeaf == [g \in {"self"} |-> << <<Ph("self"), Lit(" x")>>, <<Lit("leaf")>> >>]

Mutual ==
    [g \in {"self", "b"} |->
        IF g = "self" THEN << <<Ph("b")>> >> ELSE << <<Ph("self"), Lit(" y")>> >>]

GeneratorTables ==
    { Flat(k, n) : k \in 0..MaxUnreg, n \in 0..MaxReg }
        \cup {Nested, UnregNested, EmptyNested, Plain, SelfOnly, SelfLeaf, Mutual}

GeneratorNames == {"top", "a", "self", "treasure", "missing"}

AddInputs == { [name |-> "u", items |-> << <<Lit("z")>> >>], [name |-> "a", items |-> <<>>] }

GenImport ==
    \E table \in GeneratorTables :
        generators = initializeDefaultGenerators /\ importGenerators(table)

GenAdd == \E g \in AddInputs : addGenerator(g.name, g.items)

GenGenerate ==
    \E name \in GeneratorNames : Len(history) < MaxHistory /\ generate(name)

GenClear == clearHistory

GenNext == GenImport \/ GenAdd \/ GenGenerate \/ GenClear

GenSpec == Init /\ [][GenNext]_vars

-----------------------------------------------------------------------------
(* Name specification: entries are registered one at a time, and content   *)
(* is asked for under names with and without an entry.                     *)

NameInputs ==
    AddInputs \cup { [name |-> "missing", items |-> << <<Lit("found at last")>> >>],
                     [name |-> "top", items |-> << <<Lit("The "), Ph("a"), Lit(".")>> >>] }

NameAdd == \E g \in NameInputs : addGenerator(g.name, g.items)

\* the caller stops asking for content at MaxHistory records; a name that
\* has no entry is asked for at any time
NameGenerate ==
    \E name \in GeneratorNames :
        (Len(history) < MaxHistory \/ ~Has(generators, name)) /\ generate(name)

NameClear == clearHistory

NameNext == NameAdd \/ NameGenerate \/ NameClear

NameSpec == Init /\ [][NameNext]_vars

-----------------------------------------------------------------------------
(* AI specification: personalities are set, difficulties scaled and story  *)
(* events recorded.                                                        *)

MaxEvents == 2         \* story events recorded before a reset

PersonalityInputs == DOMAIN personalities \cup InheritedKeys \cup {"bogus"}

AISetPersonality == \E key \in PersonalityInputs : setPersonality(key)

AIScaleDifficulty ==
    \E baseDifficulty \in 1..5 :
        /\ aiOut' = Some([difficulty |-> scaleDifficulty(baseDifficulty, getPersonality)])
        /\ UNCHANGED <<personality, majorEvents, generated, storeVars, apiVars, genVars>>

AIRecord ==
    \E event \in {"encounter", "quest"} :
        Len(majorEvents) < MaxEvents /\ recordStoryEvent(event)

AIReset == reset

AINext == AISetPersonality \/ AIScaleDifficulty \/ AIRecord \/ AIReset

AISpec == Init /\ [][AINext]_vars

-----------------------------------------------------------------------------
(* Assistant specification: the AI layer generates encounters, quests,     *)
(* boss behaviour and suggestions under changing personalities.            *)

BattleInputs ==
    { [bossHealth |-> 20, playerHealth |-> 5, handSize |-> 8, creatureCount |-> 4],
      [bossHealth |-> 0, playerHealth |-> 20, handSize |-> 3, creatureCount |-> 1] }

AssistSetPersonality ==
    \E key \in {"reckless", "cautious", "bogus"} : setPersonality(key)

\* the caller clears the generator's history before it asks for content
AssistEncounter == generated < MaxEvents /\ history = <<>> /\ generateAIEncounter

AssistQuest == history = <<>> /\ generateAIQuest

AssistBossBehavior == \E gameState \in BattleInputs : generateBossBehavior(gameState)

AssistSuggestion == \E gameState \in BattleInputs : generatePlayerSuggestion(gameState)

AssistClearHistory == clearHistory

AssistNext ==
    \/ AssistSetPersonality \/ AssistEncounter \/ AssistQuest
    \/ AssistBossBehavior \/ AssistSuggestion \/ AssistClearHistory

AssistSpec == Init /\ [][AssistNext]_vars

-----------------------------------------------------------------------------
(* Story log specification: encounters are generated past the capacity of  *)
(* the log, under a personality that changes once, and the log is reset    *)
(* when it is full.                                                        *)

MaxGenerated == 52     \* encounters generated in one session

LogEncounter == generated < MaxGenerated /\ history = <<>> /\ generateAIEncounter

LogClearHistory == clearHistory

LogSetPersonality ==
    Len(majorEvents) = 50 /\ personality = "default" /\ setPersonality("reckless")

LogReset == Len(majorEvents) = 50 /\ reset

LogNext == LogEncounter \/ LogClearHistory \/ LogSetPersonality \/ LogReset

LogSpec == Init /\ [][LogNext]_vars

-----------------------------------------------------------------------------
(* Failing calls: a subscribed session in which the caller also loads an   *)
(* object without a state, names a boss the catalog does not hold, and     *)
(* damages or defeats when no boss is current.                             *)

FailSubscribe ==
    \E callback \in Callbacks : Len(observers) < MaxObservers /\ subscribe(callback)

FailNewGame == startNewGame(HeroOptions)

FailEncounterBoss ==
    \E id \in {"malachar-corrupted", "unknown-boss"} : startBossEncounter(ById(id))

FailDamage == MayDamage(60, PhaseMaxDefeated) /\ damageBoss(60)

FailDefeat == (state.currentBoss # Null => MayDefeat(PhaseMaxDefeated)) /\ defeatBoss

FailLoad == \E blob \in {StoredBlob, BlobWithoutState} : loadGame(blob)

FailNext ==
    \/ FailSubscribe \/ FailNewGame \/ FailEncounterBoss
    \/ FailDamage \/ FailDefeat \/ FailLoad

FailSpec == Init /\ [][FailNext]_vars

-----------------------------------------------------------------------------
(* Card API specification: requests are made one after the other while     *)
(* earlier ones are still asleep or in flight, and the clock advances.     *)

Endpoints == {"/cards/named?exact=Shock", "/sets"}

\* the next call that has not been made
NextCall == CHOOSE c \in Calls : requests[c].pc = "idle" /\ \A d \in 1..(c - 1) : requests[d].pc # "idle"

ApiRequest ==
    \E endpoint \in Endpoints :
        (\E c \in Calls : requests[c].pc = "idle") /\ makeRequest(NextCall, endpoint, TRUE)

ApiRandom == (\E c \in Calls : requests[c].pc = "idle") /\ getRandomCard(NextCall)

ApiResume == \E c \in Calls : rateLimitResumes(c)

ApiSettle == \E c \in Calls, outcome \in FetchOutcomes : fetchSettles(c, outcome)

ApiClearCache == cache # <<>> /\ clearCache

ApiTick == now < StartTime + MaxTicks * TimeStep /\ clockAdvances

ApiNext ==
    \/ ApiRequest \/ ApiRandom \/ ApiResume \/ ApiSettle \/ ApiClearCache \/ ApiTick

ApiSpec == Init /\ [][ApiNext]_vars

-----------------------------------------------------------------------------
(* Builder specification: the composite builders are called on the default *)
(* table, and on a table from which a pool they use has been replaced by   *)
(* an empty one.                                                           *)

\* the caller clears the history before it asks for an object
BuildEncounter == history = <<>> /\ BuiltCompleteEncounter

BuildQuest == history = <<>> /\ BuiltQuest

BuildBoss == history = <<>> /\ BuiltBossEncounter

BuildEmptyPool == generators["treasure"] # <<>> /\ addGenerator("treasure", <<>>)

BuildClearHistory == clearHistory

BuildNext ==
    \/ BuildEncounter \/ BuildQuest \/ BuildBoss \/ BuildEmptyPool \/ BuildClearHistory

BuildSpec == Init /\ [][BuildNext]_vars

-----------------------------------------------------------------------------
(* GameState: observers that call back into the Store *)

\* "mover" changes the location when an encounter has started; "dropper"
\* unsubscribes the callback g when an encounter has started
Reacting == {"mover", "dropper"}

Arena == "The Arena"

\* what a callback's body does with the change it is handed
Reaction(callback, type) ==
    IF type = "encounter_started" /\ callback = "mover" THEN "changeLocation"
    ELSE IF type = "encounter_started" /\ callback = "dropper" THEN "unsubscribe"
    ELSE "none"

\* the store while an operation runs: its state, its observers array, and
\* the events emitted and the callbacks invoked so far by the operation
Running(st, obs) == [state |-> st, observers |-> obs, events |-> <<>>, calls |-> <<>>]

\* this.observers = this.observers.filter(obs => obs !== callback)
unsubscribeIn(store, callback) ==
    [store EXCEPT !.observers = SelectSeq(@, LAMBDA obs : obs # callback)]

\* array.forEach(callback => callback(this.state, change)) from index i, on
\* the array object the loop was started on; a callback's nested Store
\* call runs to completion before the loop goes on
RECURSIVE forEach(_, _, _, _)
RECURSIVE changeLocationIn(_, _)
forEach(store, array, i, type) ==
    IF i > Len(array) THEN store
    ELSE LET invoked == [store EXCEPT !.calls = Append(@, <<array[i], type>>)]
             after   == CASE Reaction(array[i], type) = "changeLocation" ->
                                 changeLocationIn(invoked, Arena)
                          [] Reaction(array[i], type) = "unsubscribe" ->
                                 unsubscribeIn(invoked, "g")
                          [] OTHER -> invoked
         IN  forEach(after, array, i + 1, type)

\* notifyObservers(change) on the observers array of that moment
notifyIn(store, type) ==
    forEach([store EXCEPT !.events = Append(@, Event(type))], store.observers, 1, type)

\* updateState(updates) inside a running operation
updateStateIn(store, updates) ==
    notifyIn([store EXCEPT !.state = Spread(@, updates)], "state_update")

changeLocationIn(store, location) ==
    notifyIn(updateStateIn(store, [location |-> Some(location)]), "location_changed")

startEncounterIn(store, encounter) ==
    notifyIn(updateStateIn(store, [gamePhase |-> "encounter",
                                   currentEncounter |-> Some(encounter),
                                   currentBoss |-> Null]),
             "encounter_started")

\* the store after a completed operation
ReturnedFrom(op, store) ==
    /\ state' = store.state
    /\ observers' = store.observers
    /\ events' = store.events
    /\ calls' = store.calls
    /\ lastOp' = [op |-> op, result |-> "ok"]
    /\ UNCHANGED <<gameData, aiVars, genVars, apiVars>>

-----------------------------------------------------------------------------
(* React specification: observers that call back into the Store are         *)
(* subscribed next to plain ones, and encounters are started.               *)

ReactSubscribe ==
    \E callback \in {"f", "g"} \cup Reacting :
        Len(observers) < MaxObservers /\ subscribe(callback)

ReactUnsubscribe == \E callback \in {"f", "g"} \cup Reacting : unsubscribe(callback)

ReactEncounter ==
    /\ ReturnedFrom("startEncounter", startEncounterIn(Running(state, observers), "ambush"))
    /\ saved' = Unalias(saved)

ReactChangeLocation ==
    \E location \in {"The Shadowlands", Arena} :
        /\ ReturnedFrom("changeLocation", changeLocationIn(Running(state, observers), location))
        /\ UNCHANGED saved

ReactNext ==
    \/ ReactSubscribe
    \/ ReactUnsubscribe
    \/ ReactEncounter
    \/ ReactChangeLocation

ReactSpec == Init /\ [][ReactNext]_vars

-----------------------------------------------------------------------------
(* Restore specification: saves of earlier sessions are loaded, with and    *)
(* without their gameData, and the boss battles go on.                      *)

\* a save that holds the state only
BlobWithoutGameData == [state |-> StoredBlob.state, gameData |-> Null, shared |-> FALSE]

RestoreLoad ==
    \E blob \in {StoredBlob, BlobWithoutGameData, BlobWithoutState} : loadGame(blob)

RestoreNewGame == startNewGame(HeroOptions)

RestoreEncounterBoss ==
    \E b \in {ById("malachar-corrupted"), ById("unknown-boss"), ByObject(Some(CustomBoss))} :
        startBossEncounter(b)

RestoreDamage ==
    \E d \in {60, 200} : MayDamage(d, PhaseMaxDefeated) /\ damageBoss(d)

RestoreDefeat == (state.currentBoss # Null => MayDefeat(PhaseMaxDefeated)) /\ defeatBoss

RestoreReset == resetGame

RestoreNext ==
    \/ RestoreLoad
    \/ RestoreNewGame
    \/ RestoreEncounterBoss
    \/ RestoreDamage
    \/ RestoreDefeat
    \/ RestoreReset

RestoreSpec == Init /\ [][RestoreNext]_vars

-----------------------------------------------------------------------------
(* Battle specification: boss battles and encounters are started in any     *)
(* order, by id or by object, and games are saved and loaded in between.    *)

BattleNewGame == startNewGame(HeroOptions)

BattleEncounterBoss ==
    \E b \in {ById("malachar-corrupted"), ById("unknown-boss"), ByObject(Some(CustomBoss))} :
        startBossEncounter(b)

BattleEncounter == startEncounter("ambush")

BattleDamage == MayDamage(200, PhaseMaxDefeated) /\ damageBoss(200)

BattleDefeat == (state.currentBoss # Null => MayDefeat(PhaseMaxDefeated)) /\ defeatBoss

BattleReset == resetGame

BattleSave == saveGame

BattleLoadOwn == saved # Null /\ loadGame(OwnBlob)

BattleLoadStored == \E blob \in {StoredBlob, BlobWithoutState} : loadGame(blob)

BattleNext ==
    \/ BattleNewGame
    \/ BattleEncounterBoss
    \/ BattleEncounter
    \/ BattleDamage
    \/ BattleDefeat
    \/ BattleReset
    \/ BattleSave
    \/ BattleLoadOwn
    \/ BattleLoadStored

BattleSpec == Init /\ [][BattleNext]_vars

-----------------------------------------------------------------------------
(* Save specification: the caller keeps the blob of the last saveGame and  *)
(* loads it back, or loads a save of an earlier session.                   *)

SaveNewGame == startNewGame(HeroOptions)

SaveEncounterBoss == startBossEncounter(ById("malachar-corrupted"))

SaveDamage == MayDamage(60, PhaseMaxDefeated) /\ damageBoss(60)

SaveChangeLocation == changeLocation("The Shadowlands")

SaveReset == resetGame

SaveSave == saveGame

SaveLoadOwn == saved # Null /\ loadGame(OwnBlob)

SaveLoadStored == loadGame(StoredBlob)

SaveNext ==
    \/ SaveNewGame \/ SaveEncounterBoss \/ SaveDamage \/ SaveChangeLocation
    \/ SaveReset \/ SaveSave \/ SaveLoadOwn \/ SaveLoadStored

SaveSpec == Init /\ [][SaveNext]_vars

-----------------------------------------------------------------------------
(* Party specification: games are started with any player count and names, *)
(* and the players draw cards.                                             *)

MaxPlayers == 2        \* largest playerCount passed to startNewGame

NameLists == { <<>>, <<"Amy">>, <<"Amy", "Bo", "Cy">> }

GameOptions ==
    { [playerCount |-> n, playerNames |-> names] : n \in 0..MaxPlayers, names \in NameLists }

PartyNewGame == \E options \in GameOptions : startNewGame(options)

PartyAddCard ==
    \E playerId \in {"player-1", "player-2"} :
        ZoneRoom(playerId, "hand", MaxList) /\ addCardToHand(playerId, Bolt)

PartyAddItem == Len(state.inventory) < MaxList /\ addToInventory([name |-> "Ancient relic"])

PartyAddQuest == Len(state.quests) < MaxList /\ addQuest([title |-> "Find the relic"])

PartyEncounterBoss == startBossEncounter(ById("malachar-corrupted"))

PartyEncounter == startEncounter("ambush")

PartyDamage == MayDamage(200, PhaseMaxDefeated) /\ damageBoss(200)

PartyNext ==
    \/ PartyNewGame \/ PartyAddCard \/ PartyAddItem \/ PartyAddQuest
    \/ PartyEncounterBoss \/ PartyEncounter \/ PartyDamage

PartySpec == Init /\ [][PartyNext]_vars

-----------------------------------------------------------------------------
(* Quest specification: quests are added, with any fields, and progressed. *)

MaxQuests == 2         \* quests added to one game

ProgressInputs == {-10, 0, 99, 100, 150}

\* ids of the quests a game can hold, and 0 for an id no quest has
QuestIds == 0..MaxQuests

QuestAdd == \E quest \in QuestInputs : Len(state.quests) < MaxQuests /\ addQuest(quest)

QuestProgress ==
    \E questId \in QuestIds, progress \in ProgressInputs :
        updateQuestProgress(questId, progress)

QuestNewGame == startNewGame(HeroOptions)

QuestNext == QuestAdd \/ QuestProgress \/ QuestNewGame

QuestSpec == Init /\ [][QuestNext]_vars

-----------------------------------------------------------------------------
(* Claims about the game flow *)

Phase == state.gamePhase

LastEvent == events[Len(events)]

DefeatedNow ==
    /\ lastOp.op \in {"damageBoss", "defeatBoss"}
    /\ events # <<>>
    /\ LastEvent.type = "boss_defeated"

\* C1: a damageBoss(amount) call with amount >= the current boss's health
\* leaves that boss object with health exactly 0 (never negative), moves the
\* phase away from 'boss', clears currentBoss and appends the boss id to
\* defeatedBosses exactly once; and no damageBoss call leaves a current boss
\* with negative health.
C1_DamageToZeroDefeatsOnce ==
    [][\A d \in DamageInputs :
        (state.currentBoss # Null /\ damageBoss(d)) =>
            LET boss == state.currentBoss[1] IN
            /\ d >= boss.health =>
                /\ events' # <<>>
                /\ events'[Len(events')].type = "boss_defeated"
                /\ events'[Len(events')].boss[1].health = 0
                /\ state'.gamePhase # "boss"
                /\ state'.currentBoss = Null
                /\ Count(boss.id, state'.defeatedBosses)
                       = Count(boss.id, state.defeatedBosses) + 1
                /\ Len(state'.defeatedBosses) = Len(state.defeatedBosses) + 1
            /\ state'.currentBoss # Null => state'.currentBoss[1].health >= 0
      ]_vars

\* a boss was brought from positive health to 0 by an overkill damageBoss call
C1_Witness ==
    /\ lastOp = [op |-> "damageBoss", result |-> "ok"]
    /\ DefeatedNow
    /\ LastEvent.boss[1].maxHealth = 120
    /\ LastEvent.boss[1].health = 0
    /\ state.gamePhase = "playing"
    /\ state.defeatedBosses = <<"vorthak-destroyer", "malachar-corrupted">>

\* the catalog bosses defeated in the current game
DefeatedInGame == CatalogIds \cap Range(state.defeatedBosses)

\* C2: in a game, once every catalog boss has been encountered and defeated
\* the phase is 'victory' and boss_defeated carries victory = true; after all
\* but one catalog boss have been defeated the phase is 'playing' and
\* victory = false.
C2_VictoryIffAllDefeated ==
    DefeatedNow =>
        /\ DefeatedInGame = CatalogIds =>
              (state.gamePhase = "victory" /\ LastEvent.victory)
        /\ Cardinality(DefeatedInGame) = Cardinality(CatalogIds) - 1 =>
              (state.gamePhase = "playing" /\ ~LastEvent.victory)

DocumentedEdges ==
    { <<"menu", "playing">>,
      <<"playing", "encounter">>, <<"encounter", "playing">>,
      <<"playing", "boss">>, <<"boss", "playing">>, <<"boss", "victory">> }

\* C3 as stated: the phase changes only along menu -> playing, playing <->
\* encounter, playing <-> boss, boss -> victory, and any phase -> menu by
\* resetGame.
C3_DocumentedEdgesOnly ==
    [][state'.gamePhase # state.gamePhase =>
          \/ <<state.gamePhase, state'.gamePhase>> \in DocumentedEdges
          \/ (lastOp'.op = "resetGame" /\ state'.gamePhase = "menu")
      ]_vars

\* C3 (amended): the phase changes only as follows, whatever the phase was
\* before: startNewGame sets 'playing', startEncounter sets 'encounter',
\* startBossEncounter sets 'boss', resetGame sets 'menu', loadGame sets the
\* phase stored in the blob, and a defeat (damageBoss reaching 0, defeatBoss)
\* leaves 'boss' for 'victory' when every catalog boss is then marked
\* defeated and for 'playing' otherwise; no other operation changes the phase.
C3_PhaseChangesByOperation ==
    [][state'.gamePhase # state.gamePhase =>
          \/ (lastOp'.op = "startNewGame" /\ state'.gamePhase = "playing")
          \/ (lastOp'.op = "startEncounter" /\ state'.gamePhase = "encounter")
          \/ (lastOp'.op = "startBossEncounter" /\ state'.gamePhase = "boss")
          \/ (lastOp'.op = "resetGame" /\ state'.gamePhase = "menu")
          \/ (lastOp'.op = "loadGame" /\ state'.gamePhase = StoredBlob.state[1].gamePhase)
          \/ /\ lastOp'.op \in {"damageBoss", "defeatBoss"}
             /\ state.gamePhase = "boss"
             /\ state'.gamePhase =
                    IF \A i \in 1..Len(gameData'.bosses) : gameData'.bosses[i].defeated
                    THEN "victory" ELSE "playing"
      ]_vars

\* a boss encounter entered straight from the menu, with no game started
C3_Witness ==
    /\ state.gamePhase = "boss"
    /\ state.currentTurn = 0
    /\ state.players = <<>>
    /\ state.defeatedBosses = <<>>
    /\ lastOp = [op |-> "startBossEncounter", result |-> "ok"]

-----------------------------------------------------------------------------
(* Claims about change notification *)

Mutators ==
    {"startNewGame", "startBossEncounter", "startEncounter", "damageBoss",
     "defeatBoss", "addCardToHand", "playCard", "addToInventory", "addQuest",
     "updateQuestProgress", "changeLocation", "updateSettings", "resetGame"}

\* errors the operations raise themselves, before changing anything
StoreErrors ==
    {"Invalid save data", "Boss not found", "No active boss to damage",
     "No active boss to defeat"}

\* the typed event of the operation called last
TypedEvent ==
    CASE lastOp.op = "startNewGame"        -> "game_started"
      [] lastOp.op = "startBossEncounter"  -> "boss_encounter_started"
      [] lastOp.op = "startEncounter"      -> "encounter_started"
      [] lastOp.op = "damageBoss"          ->
            IF state.currentBoss = Null THEN "boss_defeated" ELSE "boss_damaged"
      [] lastOp.op = "defeatBoss"          -> "boss_defeated"
      [] lastOp.op = "addCardToHand"       -> "card_added_to_hand"
      [] lastOp.op = "playCard"            -> "card_played"
      [] lastOp.op = "addToInventory"      -> "item_added_to_inventory"
      [] lastOp.op = "addQuest"            -> "quest_added"
      [] lastOp.op = "updateQuestProgress" -> "quest_progress_updated"
      [] lastOp.op = "changeLocation"      -> "location_changed"
      [] lastOp.op = "updateSettings"      -> "settings_updated"
      [] lastOp.op = "resetGame"           -> "game_reset"
      [] OTHER                             -> "none"

Completed == lastOp.op \in Mutators /\ lastOp.result \notin StoreErrors

CallsTo(callback) == SelectSeq(calls, LAMBDA c : c[1] = callback)

\* C4 as stated: a mutating operation delivers exactly one change event, its
\* typed event, to each subscribed observer, calling every subscriber
\* exactly once.
C4_OneTypedEventEach ==
    Completed =>
        \A callback \in Range(observers) :
            CallsTo(callback) = << <<callback, TypedEvent>> >>

\* C4 (amended): a mutating operation that returns normally delivers, to each
\* entry of the observers array in array order, first one generic
\* 'state_update' event (every operation but resetGame) and then exactly one
\* typed event of that operation (boss_defeated for a damageBoss that
\* defeats), and nothing else.
C4_StateUpdateThenTypedEvent ==
    Completed =>
        LET n     == Len(observers)
            typed == [i \in 1..n |-> <<observers[i], TypedEvent>>]
            plain == [i \in 1..n |-> <<observers[i], "state_update">>]
        IN  /\ lastOp.result = "ok"
            /\ calls = IF lastOp.op = "resetGame" THEN typed ELSE plain \o typed

\* two observers are notified of a non-lethal damageBoss
C4_Witness ==
    /\ lastOp = [op |-> "damageBoss", result |-> "ok"]
    /\ state.currentBoss # Null
    /\ observers = <<"f", "g">>
    /\ Len(calls) = 4

\* what the operation called last must have left in the state
MutationKept ==
    CASE lastOp.op = "startNewGame"   -> state.gamePhase = "playing" /\ state.currentTurn = 1
      [] lastOp.op = "startEncounter" -> state.gamePhase = "encounter"
                                         /\ state.currentEncounter = Some("ambush")
      [] lastOp.op = "startBossEncounter" -> state.gamePhase = "boss" /\ state.currentBoss # Null
      [] lastOp.op = "defeatBoss"     -> state.currentBoss = Null /\ state.defeatedBosses # <<>>
      [] lastOp.op = "addToInventory" -> state.inventory # <<>>
      [] lastOp.op = "addQuest"       -> state.quests # <<>>
      [] lastOp.op = "changeLocation" -> state.location = Some("The Shadowlands")
      [] lastOp.op = "updateSettings" -> state.gameSettings.soundVolume = 80
      [] lastOp.op = "resetGame"      -> state.gamePhase = "menu" /\ state.players = <<>>
      [] OTHER -> TRUE

\* C5: when an observer callback throws during a notification, every other
\* subscribed observer is still called for each event of the operation, the
\* operation returns normally and its state mutation is kept.
C5_ThrowingObserverIsIsolated ==
    (Completed /\ Range(observers) \cap Throwing # {}) =>
        /\ lastOp.result = "ok"
        /\ \A callback \in Range(observers) :
              /\ <<callback, TypedEvent>> \in Range(calls)
              /\ lastOp.op # "resetGame" => <<callback, "state_update">> \in Range(calls)
        /\ MutationKept

\* the throwing callback is notified before a healthy one
C5_Witness ==
    /\ observers = <<"bad", "f">>
    /\ lastOp = [op |-> "changeLocation", result |-> "ok"]
    /\ <<"bad", "location_changed">> \in Range(calls)
    /\ <<"f", "location_changed">> \in Range(calls)
    /\ state.location = Some("The Shadowlands")

-----------------------------------------------------------------------------
(* Claims about cards *)

IdCount(id, zone) == Len(SelectSeq(zone, LAMBDA c : c.id = id))

CardIds == {c.id : c \in CardInputs}

HasPlayer(playerId) == \E i \in 1..Len(state.players) : state.players[i].id = playerId

\* C6: for every existing player, card and target zone, after
\* playCard(playerId, card, zone) the player's hand holds no entry with the
\* card's id and the target zone holds exactly one entry with that id,
\* whatever the zones held before.
C6_PlayedCardIsInZoneOnce ==
    [][\A playerId \in ActingPlayers, card \in CardInputs, zone \in Zones :
         (HasPlayer(playerId) /\ playCard(playerId, card, zone)) =>
            \A i \in 1..Len(state'.players) :
                state'.players[i].id = playerId =>
                    /\ IdCount(card.id, state'.players[i].hand) = 0
                    /\ IdCount(card.id, state'.players[i][zone]) = 1
      ]_vars

\* C7: for every player, a card id appears in at most one of hand,
\* battlefield and graveyard, and at most once in it.
C7_CardIdInOneZoneOnce ==
    \A i \in 1..Len(state.players) : \A id \in CardIds :
        IdCount(id, state.players[i].hand)
          + IdCount(id, state.players[i].battlefield)
          + IdCount(id, state.players[i].graveyard) <= 1

-----------------------------------------------------------------------------
(* Claims: generator expansion *)

DocumentedCap == 10

\* registered generators the items of a generator name through placeholders
Refs(table, name) ==
    { g \in DOMAIN table :
        \E i \in 1..Len(table[name]) :
            \E j \in 1..Len(table[name][i]) : table[name][i][j] = Ph(g) }

RECURSIVE ReachedFrom(_, _, _)
ReachedFrom(table, names, fuel) ==
    LET next == names \cup UNION { Refs(table, g) : g \in names }
    IN  IF fuel = 0 \/ next = names THEN names
        ELSE ReachedFrom(table, next, fuel - 1)

\* generators reached from name through one or more references
Reaches(table, name) == ReachedFrom(table, Refs(table, name), Cardinality(DOMAIN table))

Cyclic(table, name) == name \in Reaches(table, name)

Acyclic(table, name) ==
    \A g \in Reaches(table, name) \cup {name} : ~Cyclic(table, g)

Resolved(table, text) ==
    \A i \in 1..Len(text) : text[i].ph => ~Has(table, text[i].text)

IsLiteral(token) == ~token.ph

IsPlaceholder(token) == token.ph

RECURSIVE IsSubsequence(_, _)
IsSubsequence(a, b) ==
    IF a = <<>> THEN TRUE
    ELSE IF b = <<>> THEN FALSE
    ELSE IF Head(a) = Head(b) THEN IsSubsequence(Tail(a), Tail(b))
    ELSE IsSubsequence(a, Tail(b))

DerivesFrom(text, items) ==
    \E i \in 1..Len(items) : IsSubsequence(SelectSeq(items[i], IsLiteral), text)

PlainPool(items) ==
    \A i \in 1..Len(items) : \A j \in 1..Len(items[i]) : ~items[i][j].ph

\* every item an expansion from name can select holds at most the capped
\* number of placeholders, all of them naming registered generators
WithinCap(table, name) ==
    \A g \in Reaches(table, name) \cup {name} :
        \A i \in 1..Len(table[g]) :
            /\ Len(SelectSeq(table[g][i], IsPlaceholder)) <= DocumentedCap
            /\ \A j \in 1..Len(table[g][i]) :
                   table[g][i][j].ph => Has(table, table[g][i][j].text)

\* C9: generate of a generator that references itself, directly or
\* transitively, always returns a string: it stops within the cap of 10
\* rounds and never recurses without bound.
C9_SelfReferenceTerminates ==
    [][\A name \in GeneratorNames :
          (Has(generators, name) /\ Cyclic(generators, name) /\ generate(name))
              => genOut'.status = "ok"]_vars

-----------------------------------------------------------------------------
(* Claims: AI personality *)

\* C8: setPersonality with a key outside the four catalog entries leaves the
\* current personality as it was, whichever was active; with a catalog key
\* it sets the current personality to that key.
C8_UnknownKeyKeepsPersonality ==
    [][\A key \in PersonalityInputs :
          setPersonality(key)
              => personality' = IF key \in DOMAIN personalities THEN key ELSE personality]_vars

-----------------------------------------------------------------------------
(* Claims: reset, save and load, new game *)

\* C11: resetGame, from any reachable state, sets phase 'menu' and turn 0,
\* empties players, inventory, quests and defeatedBosses, clears currentBoss,
\* currentEncounter and location, leaves gameSettings as they were, and
\* leaves every catalog boss with health = maxHealth and defeated = false.
C11_ResetKeepsSettingsOnly ==
    [][resetGame =>
          /\ state'.gamePhase = "menu" /\ state'.currentTurn = 0
          /\ state'.players = <<>> /\ state'.inventory = <<>>
          /\ state'.quests = <<>> /\ state'.defeatedBosses = <<>>
          /\ state'.currentBoss = Null /\ state'.currentEncounter = Null
          /\ state'.location = Null
          /\ state'.gameSettings = state.gameSettings
          /\ \A i \in 1..Len(gameData'.bosses) :
                /\ gameData'.bosses[i].health = gameData'.bosses[i].maxHealth
                /\ ~gameData'.bosses[i].defeated]_vars

\* a reset has kept changed settings
C11_Witness ==
    /\ lastOp = [op |-> "resetGame", result |-> "ok"]
    /\ state.gameSettings # defaultSettings
    /\ state.gamePhase = "menu"
    /\ state.players = <<>>

\* C12: loadGame(saveGame()) applied immediately leaves a GameState equal in
\* all fields to the one before the save, and a boss catalog equal to the
\* one at save time.
C12_SaveLoadRoundTrip ==
    [][(lastOp.op = "saveGame" /\ saved # Null /\ loadGame(OwnBlob))
          => state' = state /\ gameData' = gameData]_vars

\* a save taken in a boss fight with a changed location was loaded back
C12_Witness ==
    /\ lastOp = [op |-> "loadGame", result |-> "ok"]
    /\ saved # Null /\ saved[1].state = state
    /\ state.gamePhase = "boss"
    /\ state.currentBoss # Null /\ state.currentBoss[1].health = 60
    /\ state.location = Some("The Shadowlands")
    /\ state.currentTurn = 1

\* C13: startNewGame with a requested player count N, for every N including
\* the smallest values, creates exactly N players with the distinct ids
\* player-1 .. player-N, takes each name from the supplied names, sets phase
\* 'playing' and turn 1, and clears currentBoss, currentEncounter, inventory,
\* quests and defeatedBosses.
C13_NewGameCreatesNPlayers ==
    [][\A options \in GameOptions :
          startNewGame(options) =>
              /\ Len(state'.players) = options.playerCount
              /\ \A i \in 1..Len(state'.players) :
                    /\ state'.players[i].id = PlayerId(i)
                    /\ i <= Len(options.playerNames)
                          => state'.players[i].name = options.playerNames[i]
              /\ state'.gamePhase = "playing" /\ state'.currentTurn = 1
              /\ state'.currentBoss = Null /\ state'.currentEncounter = Null
              /\ state'.inventory = <<>> /\ state'.quests = <<>>
              /\ state'.defeatedBosses = <<>>]_vars

-----------------------------------------------------------------------------
(* Claims: quests *)

\* C14: in every state reached through addQuest and updateQuestProgress a
\* quest is 'completed' if and only if its progress is >= 100: addQuest
\* stores the quest as active with progress 0 whatever the caller supplied,
\* updateQuestProgress(id, p) yields 'completed' for p >= 100 and 'active'
\* for p < 100, also for a quest completed before, and leaves the other
\* quests unchanged.
C14_CompletedIffProgress100 ==
    [][/\ \A i \in 1..Len(state'.quests) :
             state'.quests[i].status = "completed" <=> state'.quests[i].progress >= 100
       /\ \A quest \in QuestInputs :
             addQuest(quest) =>
                 /\ Len(state'.quests) = Len(state.quests) + 1
                 /\ state'.quests[Len(state'.quests)].status = "active"
                 /\ state'.quests[Len(state'.quests)].progress = 0
                 /\ state'.quests[Len(state'.quests)].title = quest.title
                 /\ SubSeq(state'.quests, 1, Len(state.quests)) = state.quests
       /\ \A questId \in QuestIds, progress \in ProgressInputs :
             updateQuestProgress(questId, progress) =>
                 /\ Len(state'.quests) = Len(state.quests)
                 /\ \A i \in 1..Len(state.quests) :
                       IF state.quests[i].id = questId
                       THEN /\ state'.quests[i].progress = progress
                            /\ state'.quests[i].status =
                                   (IF progress >= 100 THEN "completed" ELSE "active")
                            /\ state'.quests[i].title = state.quests[i].title
                       ELSE state'.quests[i] = state.quests[i]]_vars

\* a quest completed before is active again at progress 99, next to a
\* quest at exactly 100
C14_Witness ==
    /\ lastOp = [op |-> "updateQuestProgress", result |-> "ok"]
    /\ Len(state.quests) = 2
    /\ state.quests[1].progress = 99 /\ state.quests[1].status = "active"
    /\ state.quests[2].progress = 100 /\ state.quests[2].status = "completed"

-----------------------------------------------------------------------------
(* Claims: boss records *)

\* C15: in every reachable state the current boss has 0 <= health <=
\* maxHealth, for every sequence of damageBoss calls with any integer
\* amounts, zero and negative ones included.
C15_HealthWithinRange ==
    state.currentBoss # Null =>
        /\ 0 <= state.currentBoss[1].health
        /\ state.currentBoss[1].health <= state.currentBoss[1].maxHealth

\* C16: every boss record the Store holds, catalog entry or currentBoss
\* snapshot, is marked defeated if and only if its health is 0.
C16_DefeatedIffHealthZero ==
    /\ \A i \in 1..Len(gameData.bosses) :
          gameData.bosses[i].defeated <=> gameData.bosses[i].health = 0
    /\ state.currentBoss # Null =>
          (state.currentBoss[1].defeated <=> state.currentBoss[1].health = 0)

-----------------------------------------------------------------------------
(* Claims: AI layer and its story log *)

\* C17: no AI-layer operation changes state of the Generator (its table and
\* its history) or of the Store; generatePlayerSuggestion and
\* generateBossBehavior also leave the personality and the story log
\* unchanged.
C17_AILayerLeavesGeneratorAndStore ==
    [][/\ (\/ \E key \in PersonalityInputs : setPersonality(key)
           \/ generateAIEncounter
           \/ generateAIQuest
           \/ \E gameState \in BattleInputs : generateBossBehavior(gameState)
           \/ \E gameState \in BattleInputs : generatePlayerSuggestion(gameState))
              => UNCHANGED <<generators, history, storeVars>>
       /\ (\/ \E gameState \in BattleInputs : generateBossBehavior(gameState)
           \/ \E gameState \in BattleInputs : generatePlayerSuggestion(gameState))
              => UNCHANGED <<personality, majorEvents>>]_vars

LastEntries(log, n) == SubSeq(log, Len(log) - n + 1, Len(log))

\* C18: the story log never holds more than 50 entries: after n
\* generateAIEncounter calls since construction or reset it holds the
\* min(n, 50) most recently generated encounters in generation order, the
\* oldest dropped first, each with the personality active at its generation.
C18_LogKeepsLast50 ==
    [][/\ Len(majorEvents') <= 50
       /\ generateAIEncounter =>
             /\ Len(majorEvents') = Min(Len(majorEvents) + 1, 50)
             /\ majorEvents'[Len(majorEvents')] =
                    [event |-> aiOut'[1].encounter, personality |-> personality]
             /\ aiOut'[1].encounter = generated + 1
             /\ SubSeq(majorEvents', 1, Len(majorEvents') - 1)
                    = LastEntries(majorEvents, Len(majorEvents') - 1)
       /\ reset => majorEvents' = <<>>]_vars

\* the log is full after 52 encounters: the first two were dropped, and the
\* entries carry the personalities of their generation
C18_Witness ==
    /\ generated = 52
    /\ Len(majorEvents) = 50
    /\ majorEvents[1] = [event |-> 3, personality |-> "default"]
    /\ majorEvents[50] = [event |-> 52, personality |-> "reckless"]

\* the call left the game state, the catalog, the observers array and the
\* caller's blob as they were, invoked no callback, and ended in an error
FailedClean(op) ==
    /\ state' = state
    /\ gameData' = gameData
    /\ observers' = observers
    /\ saved' = saved
    /\ calls' = <<>>
    /\ events' = <<>>
    /\ lastOp'.op = op
    /\ lastOp'.result \notin {"ok", "observer_error"}

\* C19: every Store operation that fails with an error (loadGame on a blob
\* without a state, damageBoss or defeatBoss with no current boss,
\* startBossEncounter with an id absent from the catalog) leaves the game
\* state and the boss catalog as before the call and notifies no observer.
C19_FailedCallChangesNothing ==
    [][/\ loadGame(BlobWithoutState) => FailedClean("loadGame")
       /\ (state.currentBoss = Null /\ damageBoss(60)) => FailedClean("damageBoss")
       /\ (state.currentBoss = Null /\ defeatBoss) => FailedClean("defeatBoss")
       /\ startBossEncounter(ById("unknown-boss")) => FailedClean("startBossEncounter")
       /\ lastOp'.result \notin {"ok", "observer_error"} =>
             state' = state /\ gameData' = gameData /\ calls' = <<>>]_vars

C19_Witness ==
    /\ lastOp = [op |-> "damageBoss", result |-> "No active boss to damage"]
    /\ Len(observers) = MaxObservers
    /\ state.currentBoss = Null
    /\ state.defeatedBosses # <<>>
    /\ calls = <<>>

C21_UnknownPlayerChangesNothing ==
    [][\A playerId \in ActingPlayers, card \in CardInputs, zone \in Zones :
          /\ (~HasPlayer(playerId) /\ addCardToHand(playerId, card)) =>
                 /\ state' = state
                 /\ gameData' = gameData
                 /\ lastOp' = [op |-> "addCardToHand", result |-> "ok"]
          /\ (~HasPlayer(playerId) /\ playCard(playerId, card, zone)) =>
                 /\ state' = state
                 /\ gameData' = gameData
                 /\ lastOp' = [op |-> "playCard", result |-> "ok"]]_vars

\* a card was added although the only players of the party hold none: the
\* call named a player the party does not have
C21_Witness ==
    /\ lastOp = [op |-> "addCardToHand", result |-> "ok"]
    /\ Len(state.players) = 2
    /\ \A i \in 1..Len(state.players) : state.players[i].hand = <<>>
    /\ state.players[1].battlefield # <<>>

\* C22: the generation history is append-only: each successful top-level
\* generate call appends exactly one record (generator name, result) after
\* the existing ones, nested expansions append none, and no Generator
\* operation removes or alters an existing record.
C22_HistoryAppendOnly ==
    [][/\ Len(history') >= Len(history)
       /\ SubSeq(history', 1, Len(history)) = history
       /\ \A name \in GeneratorNames :
             (generate(name) /\ genOut'.status = "ok") =>
                 history' = Append(history, [generator |-> name, result |-> genOut'.text])]_vars

\* a registered generator without items
EmptyPool(name) == name \in DOMAIN generators /\ generators[name] = <<>>

\* the item with the sentinel in place of every placeholder of an empty pool
Sentinelled(item) ==
    [i \in 1..Len(item) |->
        IF IsPlaceholder(item[i]) /\ EmptyPool(item[i].text)
        THEN Lit("Empty generator") ELSE item[i]]

\* every placeholder of the pool's items names an empty pool or no pool
RefersToEmptyOnly(name) ==
    \A i \in 1..Len(generators[name]) : \A j \in 1..Len(generators[name][i]) :
        LET token == generators[name][i][j]
        IN  IsPlaceholder(token) =>
                (token.text \notin DOMAIN generators \/ EmptyPool(token.text))

\* C23: generate of a registered generator whose item sequence is empty
\* returns the fixed sentinel "Empty generator" and raises no error, also
\* when that generator is reached through a placeholder of another one.
C23_EmptyPoolGivesSentinel ==
    [][\A name \in GeneratorNames :
          /\ (EmptyPool(name) /\ generate(name)) =>
                 genOut' = [name |-> name, status |-> "ok",
                            text |-> <<Lit("Empty generator")>>]
          /\ (/\ name \in DOMAIN generators
              /\ generators[name] # <<>>
              /\ RefersToEmptyOnly(name)
              /\ generate(name)) =>
                 /\ genOut'.status = "ok"
                 /\ genOut'.text \in {Sentinelled(item) : item \in Range(generators[name])}]_vars

C23_Witness ==
    /\ EmptyPool("a")
    /\ genOut = [name |-> "top", status |-> "ok",
                 text |-> <<Lit("The "), Lit("Empty generator"), Lit(".")>>]

\* base plus 1 above 0.7, minus 1 below 0.4, brought into 1..5
Adjusted(base, dangerTenths) ==
    LET raw == base + (IF dangerTenths > 7 THEN 1 ELSE IF dangerTenths < 4 THEN -1 ELSE 0)
    IN  IF raw < 1 THEN 1 ELSE IF raw > 5 THEN 5 ELSE raw

\* C24: for every base difficulty in 1..5 and each of the four
\* personalities, the difficulty of an AI-generated encounter is the base
\* plus 1 if danger > 0.7, minus 1 if danger < 0.4, otherwise unchanged,
\* clamped to 1..5; the result is always within 1..5.
C24_DifficultyScaledAndClamped ==
    [][personality' \in DOMAIN personalities =>
          /\ \A baseDifficulty \in 1..5 :
                LET scaled == scaleDifficulty(baseDifficulty, Lookup(personality')[1])
                IN  /\ scaled \in 1..5
                    /\ scaled = Adjusted(baseDifficulty, personalities[personality'].danger[1])
          /\ AIScaleDifficulty =>
                aiOut'[1].difficulty \in
                    {Adjusted(b, personalities[personality'].danger[1]) : b \in 1..5}]_vars

C24_Witness ==
    /\ personality = "reckless"
    /\ aiOut = Some([difficulty |-> 5])

-----------------------------------------------------------------------------
(* Claims: card API client *)

\* C26: for any interleaving of overlapping makeRequest calls, two fetches
\* are never issued less than rateLimitDelay (100 ms) apart.
C26_FetchesSpacedByDelay ==
    \A i \in 1..Len(fetches) : \A j \in (i + 1)..Len(fetches) :
        fetches[j].time - fetches[i].time >= rateLimitDelay

\* C27: the cache holds only responses of successful cacheable requests,
\* keyed by endpoint: a failed request and a getRandomCard request never add
\* an entry, and a makeRequest for an endpoint already in the cache returns
\* the cached response without issuing a fetch.
C27_CacheHoldsSuccessfulCacheable ==
    [][/\ \A e \in DOMAIN cache' :
             /\ e \in Endpoints
             /\ cache'[e] = Data(e)
             /\ \E c \in Calls :
                   /\ requests'[c].endpoint = e
                   /\ requests'[c].useCache
                   /\ requests'[c].pc = "returned"
       /\ \A c \in Calls :
             /\ \A outcome \in FetchOutcomes \ {"ok"} :
                   fetchSettles(c, outcome) =>
                       cache' = cache /\ requests'[c].pc = "threw"
             /\ getRandomCard(c) => cache' = cache
             /\ (requests[c].endpoint = "/cards/random" /\ fetchSettles(c, "ok")) =>
                   cache' = cache
             /\ \A e \in Endpoints :
                   (e \in DOMAIN cache /\ makeRequest(c, e, TRUE)) =>
                       /\ fetches' = fetches
                       /\ lastRequestTime' = lastRequestTime
                       /\ requests'[c].pc = "returned"
                       /\ requests'[c].result = Some(cache[e])]_vars

\* one request was served from the cache and a random card was fetched: the
\* cache holds the one response only
C27_Witness ==
    /\ DOMAIN cache = {"/sets"}
    /\ \E c \in Calls :
          /\ requests[c].pc = "returned"
          /\ requests[c].endpoint = "/sets"
          /\ ~requests[c].fetched
    /\ \E c \in Calls :
          /\ requests[c].pc = "returned"
          /\ requests[c].endpoint = "/cards/random"

-----------------------------------------------------------------------------
(* Claims: quest progress, quest givers, generated ranges *)

\* C28: in every state reachable through addQuest and updateQuestProgress
\* with any integer progress argument, every quest's progress lies in 0..100.
C28_ProgressWithinRange ==
    \A i \in 1..Len(state.quests) : state.quests[i].progress \in 0..100

\* C29: generateAIQuest under a personality with danger <= 0.7 returns a
\* defined quest giver taken from the NPC catalog whose trustworthiness is
\* above 0.7, for every random draw; under danger > 0.7 the giver is some
\* entry of the full catalog.
C29_QuestGiverDefinedAndTrusted ==
    [][(generateAIQuest /\ "questGiver" \in DOMAIN aiOut'[1]) =>
          LET giver == aiOut'[1].questGiver
          IN  /\ giver # Null
              /\ giver[1] \in Range(questGivers)
              /\ personalities[personality].danger[1] <= 7 => giver[1].trustworthy > 70]_vars

C29_Witness ==
    /\ personality = "cautious"
    /\ aiOut # Null
    /\ "questGiver" \in DOMAIN aiOut[1]
    /\ aiOut[1].questGiver # Null
    /\ aiOut[1].questGiver[1].name = "Village Elder"

\* C30: for every random draw, generateCompleteEncounter and generateQuest
\* yield an integer difficulty in 1..5, and generateBossEncounter yields an
\* integer health in 100..150.
C30_BuiltValuesInRange ==
    (built # Null /\ built[1].error = "none") =>
        /\ built[1].builder \in {"generateCompleteEncounter", "generateQuest"} =>
              (built[1].difficulty # Null /\ built[1].difficulty[1] \in 1..5)
        /\ built[1].builder = "generateBossEncounter" =>
              (built[1].health # Null /\ built[1].health[1] \in 100..150)

\* the largest health the draw gives, on a boss built from nine pools
C30_Witness ==
    /\ built # Null
    /\ built[1].builder = "generateBossEncounter"
    /\ built[1].health = Some(149)
    /\ Len(history) = 9

-----------------------------------------------------------------------------
(* Claims: boss bookkeeping *)

\* C31: in every state reachable through the Store's operations a catalog
\* boss is marked defeated if and only if its id is in defeatedBosses, and
\* the phase is 'victory' only when defeatedBosses holds the id of every
\* catalog boss.
C31_DefeatedFlagMatchesList ==
    /\ \A i \in 1..Len(gameData.bosses) :
          gameData.bosses[i].defeated <=>
              gameData.bosses[i].id \in Range(state.defeatedBosses)
    /\ state.gamePhase = "victory" =>
          \A i \in 1..Len(gameData.bosses) :
              gameData.bosses[i].id \in Range(state.defeatedBosses)

\* getGameStats(): the two boss counters of the statistics object
getGameStats ==
    [bossesDefeated |-> Len(state.defeatedBosses),
     totalBosses    |-> Len(gameData.bosses)]

\* C32: in every reachable state defeatedBosses holds no id more than once,
\* so getGameStats().bossesDefeated never exceeds getGameStats().totalBosses,
\* for any sequence of startBossEncounter and damageBoss / defeatBoss.
C32_DefeatedListHasNoDuplicates ==
    /\ \A i, j \in 1..Len(state.defeatedBosses) :
          state.defeatedBosses[i] = state.defeatedBosses[j] => i = j
    /\ getGameStats.bossesDefeated <= getGameStats.totalBosses

-----------------------------------------------------------------------------
(* Claims: saved blobs *)

\* what the caller reads in a blob: its state, and its boss catalog, which
\* is the store's own bosses array for as long as the two are shared
BlobContent(blob, liveData) ==
    [state    |-> blob.state,
     gameData |-> IF blob.catalog = Null THEN liveData ELSE blob.catalog[1]]

\* C33: a blob returned by saveGame is a snapshot: Store operations
\* performed after saveGame (damageBoss, defeatBoss, resetGame, ...) do not
\* change the state or the boss catalog the blob holds.
C33_BlobIsSnapshot ==
    [][(saved # Null /\ lastOp'.op # "saveGame") =>
          BlobContent(saved'[1], gameData') = BlobContent(saved[1], gameData)]_vars

-----------------------------------------------------------------------------
(* Claims: the current boss *)

-----------------------------------------------------------------------------
(* Claims: observers that call back into the Store *)

\* the event types one callback was handed by the last operation, in order
RECURSIVE Received(_, _)
Received(callback, log) ==
    IF log = <<>> THEN <<>>
    ELSE IF Head(log)[1] = callback
         THEN <<Head(log)[2]>> \o Received(callback, Tail(log))
         ELSE Received(callback, Tail(log))

\* the event types of the last operation in the order they were emitted
Emitted == [i \in 1..Len(events) |-> events[i].type]

\* C35: when an observer's callback invokes a mutating Store operation
\* during a notification, every observer (subscribed once) receives
\* all change events in one and the same order, the order in which the
\* mutations were applied to the state.
C35_SameOrderForEveryObserver ==
    ("mover" \in Range(observers) /\ lastOp.op = "startEncounter") =>
        \A callback \in Range(observers) :
            Count(callback, observers) = 1 => Received(callback, calls) = Emitted

\* position of the first invocation of callback with an event type, 0 if none
RECURSIVE FirstCall(_, _, _, _)
FirstCall(log, callback, type, i) ==
    IF i > Len(log) THEN 0
    ELSE IF log[i] = <<callback, type>> THEN i ELSE FirstCall(log, callback, type, i + 1)

\* C36: after unsubscribe(fn) returns, fn is not invoked for any later
\* event delivery, including the remaining deliveries of a notification
\* round in progress when unsubscribe is called from inside another
\* observer's callback; and fn is removed however many times it was
\* subscribed.
C36_UnsubscribedIsNeverInvoked ==
    [][/\ \A fn \in {"f", "g"} \cup Reacting :
             /\ unsubscribe(fn) => fn \notin Range(observers')
             /\ fn \notin Range(observers) =>
                    \A i \in 1..Len(calls') : calls'[i][1] # fn
       /\ LET dropped == FirstCall(calls', "dropper", "encounter_started", 1)
          IN  dropped # 0 =>
                  \A i \in (dropped + 1)..Len(calls') : calls'[i][1] # "g"]_vars

\* C37: currentBoss is an independent snapshot of the boss it was started
\* from: damageBoss never changes the health of a catalog boss, so every
\* catalog boss keeps health = maxHealth and a boss encountered again with
\* startBossEncounter starts at its full catalog health.
C37_CatalogHealthUntouched ==
    [][/\ \A i \in 1..Len(gameData'.bosses) :
             gameData'.bosses[i].health = gameData'.bosses[i].maxHealth
       /\ lastOp'.op = "damageBoss" =>
             \A i \in 1..Len(gameData.bosses) :
                 gameData'.bosses[i].health = gameData.bosses[i].health
       /\ \A id \in CatalogIds :
             (lastOp' = [op |-> "startBossEncounter", result |-> "ok"]
                 /\ state'.currentBoss[1].id = id) =>
                 state'.currentBoss[1].health = state'.currentBoss[1].maxHealth]_vars

\* a boss that was damaged to defeat is encountered again at full health
C37_Witness ==
    /\ lastOp = [op |-> "startBossEncounter", result |-> "ok"]
    /\ state.currentBoss # Null
    /\ state.currentBoss[1].id = "vorthak-destroyer"
    /\ state.currentBoss[1].health = 150
    /\ "vorthak-destroyer" \in Range(state.defeatedBosses)
    /\ gameData.bosses[1].defeated

-----------------------------------------------------------------------------
(* Claims: card zones *)

\* entries a player holds over hand, battlefield and graveyard
CardsHeld(player) == Len(player.hand) + Len(player.battlefield) + Len(player.graveyard)

\* C38: playCard conserves a player's cards: for every existing player the
\* total number of entries over hand, battlefield and graveyard is the same
\* before and after playCard, for any card argument and either zone.
C38_PlayCardConservesCards ==
    [][lastOp'.op = "playCard" =>
          /\ Len(state'.players) = Len(state.players)
          /\ \A i \in 1..Len(state.players) :
                 CardsHeld(state'.players[i]) = CardsHeld(state.players[i])]_vars

-----------------------------------------------------------------------------
(* Claims: loading a save *)

\* C39: after any loadGame that succeeds (a blob with a state field, with
\* or without gameData) the boss catalog is still a defined list: getBosses
\* and getUndefeatedBosses return lists, and startBossEncounter, damageBoss,
\* defeatBoss and resetGame fail only with their documented errors.
C39_CatalogDefinedAfterLoad ==
    /\ HasBosses(gameData)
    /\ getBosses # Null
    /\ getUndefeatedBosses.error = "none"
    /\ lastOp.result \in StoreErrors \cup {"ok"}

====
